---- MODULE Spec2Model ----
(***************************************************************************)
(* Model of the twitch-chat-dashboard backend pipeline:                    *)
(*   MessageBuffer      (app/services/message_buffer.py)                   *)
(*   HypeDetector       (app/services/hype_detector.py)                    *)
(*   ConnectionManager / HypeConnectionManager (app/api/websockets)        *)
(*   broadcast_metrics_loop (app/main.py)                                  *)
(* Time is counted in whole seconds.  Timestamps are integers; a naive     *)
(* datetime is read as UTC by the code (replace(tzinfo=utc)), so naive and *)
(* aware timestamps are the same integer here.                             *)
(***************************************************************************)
EXTENDS Integers, Sequences, FiniteSets, TLC

VARIABLES
    maxlen,             \* MessageBuffer._maxlen
    buffers,            \* MessageBuffer._buffers: lower-cased channel -> deque
    history,            \* history: every message ever appended, per key
    ret,                \* the last MessageBuffer call and what it returned
    clock,              \* the wall clock (datetime.utcnow / datetime.now(utc))
    advances,           \* history: how often the clock was advanced
    velocity_windows,   \* HypeDetector._velocity_windows: channel -> deque of <<time, velocity>>
    last_hype,          \* HypeDetector._last_hype: channel -> time of the last emitted event
    hype_log,           \* history: the times of the events check_for_hype returned, per channel
    checked,            \* the last check_for_hype call and what it returned
    recorded,           \* history: number of record_velocity calls
    ws_state,           \* per WebSocket: position of its endpoint handler
    active_connections, \* ConnectionManager.active_connections (manager)
    hype_connections,   \* HypeConnectionManager.active_connections (hype_manager)
    pc,                 \* broadcast_metrics_loop: where the coroutine is suspended
    chan,               \* broadcast_metrics_loop: index of `channel` in channels_list
    metrics,            \* broadcast_metrics_loop: local `metrics`
    hype_event,         \* broadcast_metrics_loop: local `hype_event`
    it,                 \* the set iterator of the running broadcast
    cur,                \* the websocket whose send is awaited
    disconnected,       \* broadcast_*: local `disconnected`
    wake,               \* earliest time at which asyncio.sleep(1) returns
    db,                 \* rows committed by HypeEventRepository.create
    cancelled,          \* task.cancel() was called on the loop's task
    connected_channels, \* TwitchChatClient._connected_channels
    requests,           \* per request of /api/channels: where its handler is suspended
    upstream,           \* history: the JOIN / PART commands those requests have sent
    bcast,              \* history: the last broadcast call that iterated the registry
    tick_log            \* history: per channel index, what the current tick did:
                        \*   "recorded"        record_velocity and check_for_hype ran
                        \*   "hype"            check_for_hype returned an event
                        \*   "persisted"       session.commit() stored the event
                        \*   "persist_failed"  session.commit() raised
                        \*   "had_subscribers" ... while hype_manager had connections
                        \*   "hype_called"     broadcast_hype was called
                        \*   "hype_done"       broadcast_hype returned or raised
                        \*   "metrics_called"  broadcast_metrics was called
                        \*   "metrics_done"    broadcast_metrics returned or raised

bufferVars == <<maxlen, buffers, history, ret>>

detectorVars == <<velocity_windows, last_hype, hype_log, checked, recorded>>

registryVars == <<ws_state, active_connections, hype_connections>>

clientVars == <<connected_channels, requests, upstream>>

loopVars == <<pc, chan, metrics, hype_event, it, cur, disconnected, wake, db,
              cancelled, bcast, tick_log>>

vars == <<maxlen, buffers, history, ret, clock, advances,
          velocity_windows, last_hype, hype_log, checked, recorded,
          ws_state, active_connections, hype_connections,
          pc, chan, metrics, hype_event, it, cur, disconnected, wake, db,
          cancelled, connected_channels, requests, upstream, bcast, tick_log>>

----------------------------------------------------------------------------
(* Bounds of the model *)

BufMaxlen == 2          \* capacity given to MessageBuffer(maxlen=...) in SpecBuffer
ExtraInserts == 1       \* add_message calls beyond the capacity
MaxTs == 1              \* message timestamps range over 0..MaxTs
MaxRecords == 1         \* record_velocity calls in SpecDetector
MaxAdvances == 2        \* clock advances in SpecDetector
MaxSleeps == 1          \* completed sleeps of the loop in Spec (ticks after the first)

----------------------------------------------------------------------------
(* Channel names and str.lower() *)

Names == {"a", "A", "b"}

\* Mutant of Lower: the name is used as a key as it was given.
C19_LowerIdentity(name) == name

Lower(name) == IF name = "A" THEN "a" ELSE name

Keys == {Lower(n) : n \in Names}

DetectorNames == {"a", "b"}

Timestamps == 0..MaxTs

SinceValues == 0..(MaxTs + 1)

NoLimit == 0            \* limit=None; `if limit and ...` treats 0 the same way

Limits == {NoLimit, 1}

Reverse(s) == [i \in 1..Len(s) |-> s[Len(s) + 1 - i]]

\* The chatters' display names, by the order in which they write
Chatters == <<"a", "A", "b">>

\* The emote codes of a message, by its position in the stream
EmoteLists ==
    <<(<<"LUL">>),
      (<<"KEKW", "LUL", "E03", "E04", "E05", "E06", "E07", "E08", "E09", "E10", "E11">>),
      (<<>>)>>

\* ChatMessage: the fields the buffer and the calculator read.  The id-th
\* message of a channel carries the id-th author (cyclically), the id-th
\* emote list (none after the last) and a content of id * id + 2 characters.
ChatMessage(id, ts) ==
    [id |-> id,
     timestamp |-> ts,
     username |-> Chatters[((id - 1) % Len(Chatters)) + 1],
     emotes |-> IF id <= Len(EmoteLists) THEN EmoteLists[id] ELSE <<>>,
     length |-> id * id + 2]

----------------------------------------------------------------------------
(* MessageBuffer *)

\* Mutant of DequeAppend: a plain list append, nothing is evicted.
C1_DequeAppendUnbounded(d, x, n) == Append(d, x)

\* deque(maxlen=n).append(x): when full, the leftmost element is dropped.
DequeAppend(d, x, n) ==
    IF n = 0 THEN d
    ELSE IF Len(d) >= n THEN Append(Tail(d), x)
    ELSE Append(d, x)

\* The body of add_message: returns the new _buffers.
AddMessage(bufs, name, message, n) ==
    LET channel == Lower(name)
        created == IF channel \in DOMAIN bufs
                   THEN bufs
                   ELSE [k \in DOMAIN bufs \cup {channel} |->
                            IF k = channel THEN <<>> ELSE bufs[k]]
    IN  [created EXCEPT ![channel] = DequeAppend(created[channel], message, n)]

\* Mutant of ScanSince: the scan stops at the first message older than `since`
\* (the early exit the comment in the loop considers).
RECURSIVE C2_ScanSinceEarlyExit(_, _, _, _, _)
C2_ScanSinceEarlyExit(buf, i, since, limit, messages) ==
    IF i = 0 THEN messages
    ELSE IF buf[i].timestamp >= since
         THEN C2_ScanSinceEarlyExit(buf, i - 1, since, limit, Append(messages, buf[i]))
         ELSE messages

\* The scan of get_messages_since: newest to oldest from position i, collecting
\* into `messages`; stops only when the limit is reached.
RECURSIVE ScanSince(_, _, _, _, _)
ScanSince(buf, i, since, limit, messages) ==
    IF i = 0 THEN messages
    ELSE IF buf[i].timestamp >= since
         THEN LET got == Append(messages, buf[i])
              IN  IF limit # NoLimit /\ Len(got) >= limit
                  THEN got
                  ELSE ScanSince(buf, i - 1, since, limit, got)
         ELSE ScanSince(buf, i - 1, since, limit, messages)

get_messages_since(bufs, name, since, limit) ==
    LET channel == Lower(name)
    IN  IF channel \notin DOMAIN bufs
        THEN <<>>
        ELSE Reverse(ScanSince(bufs[channel], Len(bufs[channel]), since, limit, <<>>))

get_message_count(bufs, name) ==
    LET channel == Lower(name)
    IN  IF channel \notin DOMAIN bufs THEN 0 ELSE Len(bufs[channel])

\* Mutant of get_recent_messages: the slice messages[-count:], which is the
\* whole list for count 0.
C30_GetRecentNegativeSlice(bufs, name, count) ==
    LET channel == Lower(name)
    IN  IF channel \notin DOMAIN bufs THEN <<>>
        ELSE LET messages == bufs[channel]
             IN  IF count = 0 \/ count >= Len(messages) THEN messages
                 ELSE SubSeq(messages, Len(messages) - count + 1, Len(messages))

\* get_recent_messages: messages[max(0, len - count):]
get_recent_messages(bufs, name, count) ==
    LET channel == Lower(name)
    IN  IF channel \notin DOMAIN bufs THEN <<>>
        ELSE LET messages == bufs[channel]
                 start_idx == IF Len(messages) - count > 0
                              THEN Len(messages) - count ELSE 0
             IN  SubSeq(messages, start_idx + 1, Len(messages))

\* The body of clear_channel: returns the new _buffers; the key stays.
ClearChannel(bufs, name) ==
    LET channel == Lower(name)
    IN  IF channel \in DOMAIN bufs
        THEN [bufs EXCEPT ![channel] = <<>>]
        ELSE bufs

EmptyMap == [k \in {} |-> <<>>]

MetricsSockets == {"m1", "m2", "m3"}    \* clients of /ws/metrics and /ws/channel/{name}

HypeSockets == {"h1"}                   \* clients of /ws/hype

Sockets == MetricsSockets \cup HypeSockets

NoBroadcast == [kind |-> "none"]

NoIterator == [used |-> 0, todo |-> {}]

\* Requests to POST /api/channels and DELETE /api/channels/{name} that can
\* be in progress at the same time
Requests == {"r1", "r2"}

NoRequest == [pc |-> "idle"]

\* channels_list: settings.channels_list, the configured channels
channels_list == <<"a", "b">>

\* The registries and the loop when the loop's task does not run
IdleLoop ==
    /\ ws_state = [w \in Sockets |-> "closed"]
    /\ active_connections = {}
    /\ hype_connections = {}
    /\ pc = "off"
    /\ connected_channels = {channels_list[i] : i \in 1..Len(channels_list)}
    /\ requests = [r \in Requests |-> NoRequest]
    /\ upstream = <<>>
    /\ chan = 0
    /\ metrics = NoBroadcast
    /\ hype_event = [none |-> TRUE]     \* NoEvent
    /\ it = NoIterator
    /\ cur = "none"
    /\ disconnected = {}
    /\ wake = 0
    /\ db = <<>>
    /\ cancelled = FALSE
    /\ bcast = NoBroadcast
    /\ tick_log = [i \in 1..Len(channels_list) |-> {}]

InitBuffer ==
    /\ maxlen = BufMaxlen
    /\ buffers = EmptyMap
    /\ history = [k \in Keys |-> <<>>]
    /\ ret = [op |-> "init"]
    /\ clock = 0
    /\ advances = 0
    /\ velocity_windows = EmptyMap
    /\ last_hype = EmptyMap
    /\ hype_log = [c \in DetectorNames |-> <<>>]
    /\ checked = [op |-> "init"]
    /\ recorded = 0
    /\ IdleLoop

RECURSIVE SumLen(_, _)
SumLen(f, S) ==
    IF S = {} THEN 0
    ELSE LET k == CHOOSE k \in S : TRUE IN Len(f[k]) + SumLen(f, S \ {k})

Inserted == SumLen(history, Keys)

\* handle_twitch_message -> MessageBuffer.add_message(channel, message)
add_message(name, ts) ==
    LET key == Lower(name)
        message == ChatMessage(Len(history[key]) + 1, ts)
    IN  /\ Inserted < maxlen + ExtraInserts
        /\ buffers' = AddMessage(buffers, name, message, maxlen)
        /\ history' = [history EXCEPT ![key] = Append(@, message)]
        /\ ret' = [op |-> "add_message", channel |-> name]
        /\ UNCHANGED <<clientVars, maxlen, clock, advances, detectorVars, registryVars, loopVars>>

\* A call of MessageBuffer.get_messages_since(channel, since, limit)
query_since(name, since, limit) ==
    /\ ret' = [op |-> "get_messages_since", channel |-> name, since |-> since,
               limit |-> limit,
               result |-> get_messages_since(buffers, name, since, limit)]
    /\ UNCHANGED <<clientVars, maxlen, buffers, history, clock, advances, detectorVars, registryVars, loopVars>>

NextBuffer ==
    \/ \E name \in Names, ts \in Timestamps : add_message(name, ts)
    \/ \E name \in Names, since \in SinceValues, limit \in Limits :
          query_since(name, since, limit)

SpecBuffer == InitBuffer /\ [][NextBuffer]_vars

\* The last n elements of s (all of s when it is shorter)
LastN(s, n) == IF Len(s) <= n THEN s ELSE SubSeq(s, Len(s) - n + 1, Len(s))

Min(a, b) == IF a <= b THEN a ELSE b

\* C1: after any sequence of add_message calls the window of a channel holds
\* exactly min(number of insertions, capacity) events, they are the most recent
\* insertions in insertion order, the size never exceeds the capacity, and a
\* window exists exactly for the channels that received an event.
C1_BoundedWindow ==
    \A k \in Keys :
        /\ (k \in DOMAIN buffers) <=> (history[k] # <<>>)
        /\ k \in DOMAIN buffers =>
              /\ Len(buffers[k]) <= maxlen
              /\ Len(buffers[k]) = Min(Len(history[k]), maxlen)
              /\ buffers[k] = LastN(history[k], maxlen)

\* C1 witness: a window that took more insertions than its capacity, so that
\* the oldest event was evicted.
C1_Witness ==
    \E k \in DOMAIN buffers :
        /\ Len(history[k]) > maxlen
        /\ Len(buffers[k]) = maxlen
        /\ buffers[k][1] = history[k][2]

\* The stored events with timestamp >= since, in stored order
Filtered(buf, since) == SelectSeq(buf, LAMBDA m : m.timestamp >= since)

\* C2: get_messages_since without a limit returns exactly the stored events of
\* the channel with timestamp >= since, in ingestion order, and the empty
\* sequence for a channel that never received an event.
C2_QuerySince ==
    (ret.op = "get_messages_since" /\ ret.limit = NoLimit) =>
        LET key == Lower(ret.channel)
        IN  IF key \in DOMAIN buffers
            THEN ret.result = Filtered(buffers[key], ret.since)
            ELSE ret.result = <<>> /\ history[key] = <<>>

\* C2 witness: a full window that has evicted an event and holds events out of
\* timestamp order, queried so that an older-stamped event after a newer one is
\* left out of a non-empty result.
C2_Witness ==
    /\ ret.op = "get_messages_since" /\ ret.limit = NoLimit
    /\ LET key == Lower(ret.channel)
       IN  /\ key \in DOMAIN buffers
           /\ Len(history[key]) > maxlen
           /\ ret.result # <<>>
           /\ buffers[key][Len(buffers[key])].timestamp < ret.since
           /\ buffers[key][1].timestamp >= ret.since

----------------------------------------------------------------------------
(* HypeDetector.  Velocities are counted in tenths of a message per second  *)
(* so that the 0.1 substituted for a zero standard deviation is a whole     *)
(* number; mean and standard deviation are compared exactly, through the    *)
(* sum and the sum of squares of the retained samples.                      *)

Tenths == 10            \* velocity unit: 1/Tenths message per second
WindowSeconds == 60     \* HypeDetector(window_seconds=60)
ThresholdStd == 2       \* HypeDetector(threshold_std=2.0)
CooldownSeconds == 30   \* HypeDetector(cooldown_seconds=30)
MinVelocity == 5        \* HypeDetector(min_velocity=5.0), in messages per second
MinSamples == 10        \* `len(window) < 10`
StdEpsilon == 1         \* `std = 0.1`, in tenths

NoEvent == [none |-> TRUE]

Has(map, key) == key \in DOMAIN map

Put(map, key, value) ==
    [k \in DOMAIN map \cup {key} |-> IF k = key THEN value ELSE map[k]]

Remove(map, key) == [k \in DOMAIN map \ {key} |-> map[k]]

\* Mutant of PopOld: `if` in place of `while`, at most one sample is dropped.
C26_PopOldOnce(window, cutoff) ==
    IF window # <<>> /\ window[1][1] < cutoff THEN Tail(window) ELSE window

\* `while window and window[0][0] < cutoff: window.popleft()`
RECURSIVE PopOld(_, _)
PopOld(window, cutoff) ==
    IF window # <<>> /\ window[1][1] < cutoff
    THEN PopOld(Tail(window), cutoff)
    ELSE window

\* The body of record_velocity: returns the new _velocity_windows.
RecordVelocity(windows, channel, velocity, now) ==
    LET window == IF Has(windows, channel) THEN windows[channel] ELSE <<>>
        added == Append(window, <<now, velocity>>)
    IN  Put(windows, channel, PopOld(added, now - WindowSeconds))

RECURSIVE SumV(_)
SumV(window) == IF window = <<>> THEN 0 ELSE window[1][2] + SumV(Tail(window))

RECURSIVE SumSq(_)
SumSq(window) ==
    IF window = <<>> THEN 0 ELSE window[1][2] * window[1][2] + SumSq(Tail(window))

\* n * (n - 1) * variance, an integer; stdev is 0 exactly when it is 0
ScaledVar(window) == Len(window) * SumSq(window) - SumV(window) * SumV(window)

\* Mutant of StdIsZero: the epsilon is never substituted.
C16_StdNeverZero(window) == FALSE

StdIsZero(window) == Len(window) <= 1 \/ ScaledVar(window) = 0

\* Mutant of AboveThreshold: a velocity equal to the threshold counts as above.
C15_AboveOrEqual(window, velocity) ==
    LET n == Len(window)
        d == n * velocity - SumV(window)
    IN  IF StdIsZero(window)
        THEN d >= ThresholdStd * StdEpsilon * n
        ELSE /\ d >= 0
             /\ d * d * (n - 1) >= ThresholdStd * ThresholdStd * n * ScaledVar(window)

\* current_velocity > mean + threshold_std * std, with std = 0.1 when it is 0
AboveThreshold(window, velocity) ==
    LET n == Len(window)
        d == n * velocity - SumV(window)            \* n * (velocity - mean)
    IN  IF StdIsZero(window)
        THEN d > ThresholdStd * StdEpsilon * n
        ELSE /\ d > 0
             /\ d * d * (n - 1) > ThresholdStd * ThresholdStd * n * ScaledVar(window)

\* Mutant of InCooldown: the gate opens one second early.
C3_InCooldownShort(lasts, channel, now) ==
    Has(lasts, channel) /\ now - lasts[channel] < CooldownSeconds - 1

\* `if channel in self._last_hype: ... if time_since_last < self.cooldown_seconds`
InCooldown(lasts, channel, now) ==
    Has(lasts, channel) /\ now - lasts[channel] < CooldownSeconds

\* round(a / b, 0) for a >= 0, b > 0: the nearest integer, a tie going to the
\* even one.  (round() of a float decides a tie by the float's binary value;
\* the quotients of this model are no ties.)
RoundDiv(a, b) ==
    LET q == a \div b
        r == a % b
    IN  IF 2 * r < b THEN q
        ELSE IF 2 * r > b THEN q + 1
        ELSE IF q % 2 = 0 THEN q ELSE q + 1

\* Mutant of Multiplier: the quotient is cut off after the second decimal.
C33_MultiplierTruncated(window, velocity) ==
    IF SumV(window) > 0
    THEN (100 * velocity * Len(window)) \div SumV(window)
    ELSE (100 * velocity) \div Tenths

\* `round(current_velocity / mean if mean > 0 else current_velocity, 2)`, in
\* hundredths
Multiplier(window, velocity) ==
    IF SumV(window) > 0
    THEN RoundDiv(100 * velocity * Len(window), SumV(window))
    ELSE RoundDiv(100 * velocity, Tenths)

\* The HypeEvent of lines 161-169 (the rounded baseline is left out)
Event(window, channel, velocity, now) ==
    [channel |-> channel, timestamp |-> now, velocity |-> velocity,
     multiplier |-> Multiplier(window, velocity)]

\* Mutant of CheckForHype: no minimum velocity.
C13_CheckForHypeNoFloor(windows, lasts, channel, velocity, now) ==
    LET quiet == [event |-> NoEvent, last_hype |-> lasts]
    IN  IF InCooldown(lasts, channel, now) THEN quiet
        ELSE IF ~Has(windows, channel) \/ Len(windows[channel]) < MinSamples THEN quiet
        ELSE IF AboveThreshold(windows[channel], velocity)
             THEN [event |-> Event(windows[channel], channel, velocity, now),
                   last_hype |-> Put(lasts, channel, now)]
             ELSE quiet

\* Mutant of CheckForHype: any non-empty window is enough.
C14_CheckForHypeAnyWindow(windows, lasts, channel, velocity, now) ==
    LET quiet == [event |-> NoEvent, last_hype |-> lasts]
    IN  IF InCooldown(lasts, channel, now) THEN quiet
        ELSE IF velocity < MinVelocity * Tenths THEN quiet
        ELSE IF ~Has(windows, channel) \/ Len(windows[channel]) = 0 THEN quiet
        ELSE IF AboveThreshold(windows[channel], velocity)
             THEN [event |-> Event(windows[channel], channel, velocity, now),
                   last_hype |-> Put(lasts, channel, now)]
             ELSE quiet

\* Mutant of CheckForHype: a check that passes the cooldown gate and returns
\* nothing stamps the channel all the same.
C39_CheckForHypeStampsChecks(windows, lasts, channel, velocity, now) ==
    LET quiet == [event |-> NoEvent, last_hype |-> lasts]
        stamped == [event |-> NoEvent, last_hype |-> Put(lasts, channel, now)]
    IN  IF InCooldown(lasts, channel, now) THEN quiet
        ELSE IF velocity < MinVelocity * Tenths THEN stamped
        ELSE IF ~Has(windows, channel) \/ Len(windows[channel]) < MinSamples THEN stamped
        ELSE IF AboveThreshold(windows[channel], velocity)
             THEN [event |-> Event(windows[channel], channel, velocity, now),
                   last_hype |-> Put(lasts, channel, now)]
             ELSE stamped

\* The body of check_for_hype: the returned event (or NoEvent) and the new _last_hype.
CheckForHype(windows, lasts, channel, velocity, now) ==
    LET quiet == [event |-> NoEvent, last_hype |-> lasts]
    IN  IF InCooldown(lasts, channel, now) THEN quiet
        ELSE IF velocity < MinVelocity * Tenths THEN quiet
        ELSE IF ~Has(windows, channel) \/ Len(windows[channel]) < MinSamples THEN quiet
        ELSE IF AboveThreshold(windows[channel], velocity)
             THEN [event |-> Event(windows[channel], channel, velocity, now),
                   last_hype |-> Put(lasts, channel, now)]
             ELSE quiet

Velocities == {0, 6 * Tenths}

Jumps == {1, CooldownSeconds - 1, WindowSeconds + 1}

\* A baseline of MinSamples - 1 equal samples taken at time 0
Baseline(v) == [i \in 1..(MinSamples - 1) |-> <<0, v>>]

\* A baseline of MinSamples + 2 equal samples taken at time 0
LongBaseline(v) == [i \in 1..(MinSamples + 2) |-> <<0, v>>]

\* The baselines a run starts from
Baselines == {Baseline(v) : v \in Velocities} \cup {LongBaseline(10 * Tenths)}

\* The velocities check_for_hype is called with: also one just below the
\* minimum, and the threshold of the long baseline and a tenth above it
CheckVelocities ==
    Velocities \cup {MinVelocity * Tenths - 1,
                     10 * Tenths + ThresholdStd * StdEpsilon,
                     10 * Tenths + ThresholdStd * StdEpsilon + 1}

\* The detector after construction, or after MinSamples - 1 record_velocity
\* calls for one channel.
InitDetector ==
    /\ maxlen = BufMaxlen
    /\ buffers = EmptyMap
    /\ history = [k \in Keys |-> <<>>]
    /\ ret = [op |-> "init"]
    /\ clock = 0
    /\ advances = 0
    /\ \E S \in SUBSET DetectorNames, v \in Velocities :
          velocity_windows = [c \in S |-> Baseline(v)]
    /\ last_hype = EmptyMap
    /\ hype_log = [c \in DetectorNames |-> <<>>]
    /\ checked = [op |-> "init"]
    /\ recorded = 0
    /\ IdleLoop

\* A call of HypeDetector.record_velocity(channel, velocity)
record_velocity(channel, velocity) ==
    /\ recorded < MaxRecords
    /\ recorded' = recorded + 1
    /\ velocity_windows' = RecordVelocity(velocity_windows, channel, velocity, clock)
    /\ UNCHANGED <<clientVars, bufferVars, clock, advances, last_hype, hype_log, checked,
                   registryVars, loopVars>>

\* The number of samples retained for a channel
Retained(windows, channel) ==
    IF Has(windows, channel) THEN Len(windows[channel]) ELSE 0

\* A call of HypeDetector.check_for_hype(channel, current_velocity)
check_for_hype(channel, velocity) ==
    LET r == CheckForHype(velocity_windows, last_hype, channel, velocity, clock)
    IN  /\ last_hype' = r.last_hype
        /\ checked' = [op |-> "check_for_hype", channel |-> channel,
                       velocity |-> velocity, now |-> clock, event |-> r.event,
                       samples |-> Retained(velocity_windows, channel)]
        /\ hype_log' = IF r.event = NoEvent THEN hype_log
                       ELSE [hype_log EXCEPT ![channel] = Append(@, clock)]
        /\ UNCHANGED <<clientVars, bufferVars, clock, advances, velocity_windows, recorded,
                       registryVars, loopVars>>

\* Time passes.
advance_clock(d) ==
    /\ advances < MaxAdvances
    /\ advances' = advances + 1
    /\ clock' = clock + d
    /\ UNCHANGED <<clientVars, bufferVars, detectorVars, registryVars, loopVars>>

NextDetector ==
    \/ \E c \in DetectorNames, v \in Velocities : record_velocity(c, v)
    \/ \E c \in DetectorNames, v \in Velocities : check_for_hype(c, v)
    \/ \E d \in Jumps : advance_clock(d)

SpecDetector == InitDetector /\ [][NextDetector]_vars

\* The events emitted for channel c before the call recorded in `checked`
EarlierEvents(c) ==
    IF checked.op = "check_for_hype" /\ checked.channel = c /\ checked.event # NoEvent
    THEN SubSeq(hype_log[c], 1, Len(hype_log[c]) - 1)
    ELSE hype_log[c]

\* C3: a check_for_hype call made less than the cooldown after an emitted event
\* of the same channel returns no event, whatever the velocity and baseline;
\* hence any two events emitted for one channel are at least the cooldown apart.
C3_CooldownGate ==
    /\ checked.op = "check_for_hype" =>
          LET earlier == EarlierEvents(checked.channel)
          IN  (\E i \in 1..Len(earlier) : checked.now < earlier[i] + CooldownSeconds)
                  => checked.event = NoEvent
    /\ \A c \in DetectorNames : \A i, j \in 1..Len(hype_log[c]) :
          i < j => hype_log[c][j] - hype_log[c][i] >= CooldownSeconds

\* C3 witness: a second event was emitted exactly one cooldown after the first,
\* and a further check of a velocity above the threshold, made inside the new
\* cooldown, returned no event.
C3_Witness ==
    /\ checked.op = "check_for_hype" /\ checked.event = NoEvent
    /\ LET c == checked.channel
       IN  /\ Len(hype_log[c]) = 2
           /\ hype_log[c][2] = hype_log[c][1] + CooldownSeconds
           /\ checked.now < hype_log[c][2] + CooldownSeconds
           /\ checked.velocity >= MinVelocity * Tenths
           /\ Has(velocity_windows, c) /\ Len(velocity_windows[c]) >= MinSamples
           /\ AboveThreshold(velocity_windows[c], checked.velocity)

----------------------------------------------------------------------------
(* MetricsCalculator *)

TopEmotesLimit == 10    \* _get_top_emotes(messages_5m, limit=10)

\* _get_messages_in_window: since = now - timedelta(seconds=seconds)
get_messages_in_window(bufs, channel, now, seconds) ==
    get_messages_since(bufs, channel, now - seconds, NoLimit)

\* Mutant of count_unique_chatters: the names are counted as they are written.
C31_CountRawNames(messages) ==
    Cardinality({messages[i].username : i \in 1..Len(messages)})

\* _count_unique_chatters: len(set(msg.username.lower() for msg in messages))
count_unique_chatters(messages) ==
    Cardinality({Lower(messages[i].username) : i \in 1..Len(messages)})

\* all_emotes: the emotes of the messages, flattened in order
RECURSIVE AllEmotes(_)
AllEmotes(messages) ==
    IF messages = <<>> THEN <<>>
    ELSE Head(messages).emotes \o AllEmotes(Tail(messages))

Occurrences(seq, e) == Cardinality({i \in 1..Len(seq) : seq[i] = e})

\* Counter(seq).most_common(limit): by count, descending; equal counts in
\* the order of first occurrence.  (The sequence and the leading token are
\* bound once, as values, before they are used.)
RECURSIVE MostCommon(_, _)
MostCommon(seq, limit) ==
    CHOOSE result \in UNION {
        IF limit = 0 \/ s = <<>> THEN {<<>>}
        ELSE LET best == CHOOSE i \in 1..Len(s) :
                            /\ \A j \in 1..Len(s) :
                                  Occurrences(s, s[j]) <= Occurrences(s, s[i])
                            /\ \A j \in 1..(i - 1) :
                                  Occurrences(s, s[j]) < Occurrences(s, s[i])
             IN  {<<(<<e, Occurrences(s, e)>>)>>
                     \o MostCommon(SelectSeq(s, LAMBDA x : x # e), limit - 1)
                  : e \in {s[best]}}
        : s \in {seq}} : TRUE

\* Mutant of get_top_emotes: most_common() without a limit.
C32_GetTopEmotesUntruncated(messages, limit) ==
    MostCommon(AllEmotes(messages), Len(AllEmotes(messages)))

get_top_emotes(messages, limit) == MostCommon(AllEmotes(messages), limit)

RECURSIVE TotalLength(_)
TotalLength(messages) ==
    IF messages = <<>> THEN 0
    ELSE Head(messages).length + TotalLength(Tail(messages))

\* _calculate_avg_message_length: round(total_length / len(messages), 1), in
\* tenths of a character; 0.0 without messages
calculate_avg_message_length(messages) ==
    IF messages = <<>> THEN 0
    ELSE RoundDiv(10 * TotalLength(messages), Len(messages))

\* Mutant of calculate_metrics: the one-second and the one-minute horizons
\* are exchanged.
C17_CalculateMetricsSwapped(bufs, channel, now) ==
    LET messages_1s == get_messages_in_window(bufs, channel, now, 60)
        messages_1m == get_messages_in_window(bufs, channel, now, 1)
        messages_5m == get_messages_in_window(bufs, channel, now, 300)
    IN  [channel |-> channel,
         timestamp |-> now,
         messages_per_second |-> Len(messages_1s),
         messages_last_minute |-> Len(messages_1m),
         unique_chatters_5min |-> count_unique_chatters(messages_5m),
         top_emotes |-> get_top_emotes(messages_5m, TopEmotesLimit),
         avg_message_length |-> calculate_avg_message_length(messages_5m)]

\* Mutant of calculate_metrics: the newest message of the window arrives after
\* the 1-second horizon was read and before the other two are.
C38_CalculateMetricsInterleaved(bufs, channel, now) ==
    LET key == Lower(channel)
        before == IF Has(bufs, key) /\ bufs[key] # <<>>
                  THEN [bufs EXCEPT ![key] = SubSeq(@, 1, Len(@) - 1)]
                  ELSE bufs
        messages_1s == get_messages_in_window(before, channel, now, 1)
        messages_1m == get_messages_in_window(bufs, channel, now, 60)
        messages_5m == get_messages_in_window(bufs, channel, now, 300)
    IN  [channel |-> channel,
         timestamp |-> now,
         messages_per_second |-> Len(messages_1s),
         messages_last_minute |-> Len(messages_1m),
         unique_chatters_5min |-> count_unique_chatters(messages_5m),
         top_emotes |-> get_top_emotes(messages_5m, TopEmotesLimit),
         avg_message_length |-> calculate_avg_message_length(messages_5m)]

\* calculate_metrics: the three horizon queries at one `now`, and the values
\* computed from them.
calculate_metrics(bufs, channel, now) ==
    LET messages_1s == get_messages_in_window(bufs, channel, now, 1)
        messages_1m == get_messages_in_window(bufs, channel, now, 60)
        messages_5m == get_messages_in_window(bufs, channel, now, 300)
    IN  [channel |-> channel,
         timestamp |-> now,
         messages_per_second |-> Len(messages_1s),
         messages_last_minute |-> Len(messages_1m),
         unique_chatters_5min |-> count_unique_chatters(messages_5m),
         top_emotes |-> get_top_emotes(messages_5m, TopEmotesLimit),
         avg_message_length |-> calculate_avg_message_length(messages_5m)]

----------------------------------------------------------------------------
(* broadcast_metrics_loop with ConnectionManager.broadcast_metrics and      *)
(* HypeConnectionManager.broadcast_hype.  The coroutine runs from one await *)
(* to the next in one step; pc names the await it is suspended at:          *)
(*   "start"     the task was created and has not run yet                   *)
(*   "commit"    await self.session.commit()       (repo.create)            *)
(*   "refresh"   await self.session.refresh(...)   (repo.create)            *)
(*   "h_send"    await connection.send_text(...)   (broadcast_hype)         *)
(*   "m_send"    await websocket.send_json(...)    (broadcast_metrics)      *)
(*   "sleep"     await asyncio.sleep(1) at the end of a tick                *)
(*   "err_sleep" await asyncio.sleep(1) in `except Exception`               *)
(*   "done"      the coroutine has returned or was cancelled                *)

\* The loop's view of the state, threaded through the synchronous code; `now`
\* is the time the clock shows while that code runs.
Here ==
    [now |-> clock, pc |-> pc, chan |-> chan, metrics |-> metrics, hype_event |-> hype_event,
     it |-> it, cur |-> cur, disconnected |-> disconnected, wake |-> wake,
     bcast |-> bcast, tick_log |-> tick_log,
     velocity_windows |-> velocity_windows, last_hype |-> last_hype,
     hype_log |-> hype_log, checked |-> checked,
     active_connections |-> active_connections,
     hype_connections |-> hype_connections]

Apply(S) ==
    /\ pc' = S.pc
    /\ chan' = S.chan
    /\ metrics' = S.metrics
    /\ hype_event' = S.hype_event
    /\ it' = S.it
    /\ cur' = S.cur
    /\ disconnected' = S.disconnected
    /\ wake' = S.wake
    /\ bcast' = S.bcast
    /\ tick_log' = S.tick_log
    /\ velocity_windows' = S.velocity_windows
    /\ last_hype' = S.last_hype
    /\ hype_log' = S.hype_log
    /\ checked' = S.checked
    /\ active_connections' = S.active_connections
    /\ hype_connections' = S.hype_connections

Log(S, tags) == [S EXCEPT !.tick_log[S.chan] = @ \cup tags]

Registry(S, kind) ==
    IF kind = "hype" THEN S.hype_connections ELSE S.active_connections

SendPc(kind) == IF kind = "hype" THEN "h_send" ELSE "m_send"

\* Mutant of RemoveDisconnected: the failed sinks stay registered.
C4_KeepDisconnected(registry, failed) == registry

\* `self.active_connections -= disconnected`
RemoveDisconnected(registry, failed) == registry \ failed

\* Mutant of OnLoopException: the handler leaves the loop.
C7_OnLoopExceptionBreak == "done"

\* `except Exception as e: ... await asyncio.sleep(1)` of the loop
OnLoopException == "err_sleep"

\* The set iterator compares the set's size with the size it started with on
\* every step and raises RuntimeError when they differ.
SizeChanged(S, kind) == Cardinality(Registry(S, kind)) # S.it.used

\* The set was changed under the iterator without a change of size: which
\* elements the iterator still yields depends on the hash table's layout.
Disturbed(S) == S.bcast.joined \cup S.bcast.left # {}

\* Each operator below maps the state S at one point of the coroutine to the
\* set of states it can be suspended in next; S is bound once, where the
\* operator is entered.
RECURSIVE ProcessChannel(_)
RECURSIVE MetricsBroadcast(_)
RECURSIVE NextChannel(_)
RECURSIVE IterNext(_, _)
RECURSIVE OnHypeException(_)

\* The end of one `for channel in channels_list` iteration: the next
\* iteration, or `await asyncio.sleep(1)` after the last one.
NextChannel(St) ==
    UNION {
        IF S.chan < Len(channels_list)
        THEN ProcessChannel([S EXCEPT !.chan = @ + 1])
        ELSE {[S EXCEPT !.pc = "sleep", !.wake = S.now + 1]}
        : S \in {St}}

\* The broadcast returns: `self.active_connections -= disconnected`.
Returned(St, kind) ==
    UNION {
        LET left == RemoveDisconnected(Registry(S, kind), S.disconnected)
            S1 == [S EXCEPT !.bcast.outcome = "returned", !.bcast.after = left,
                            !.it = NoIterator, !.cur = "none", !.disconnected = {}]
        IN  IF kind = "hype"
            THEN MetricsBroadcast(
                     Log([S1 EXCEPT !.hype_connections = left], {"hype_done"}))
            ELSE NextChannel(
                     Log([S1 EXCEPT !.active_connections = left], {"metrics_done"}))
        : S \in {St}}

\* RuntimeError("Set changed size during iteration") leaves the broadcast:
\* from broadcast_hype it is caught by the inner `except Exception` (line 99),
\* from broadcast_metrics by the `except Exception` of the loop (line 111).
Raised(St, kind) ==
    UNION {
        LET S1 == [S EXCEPT !.bcast.outcome = "raised",
                            !.bcast.after = Registry(S, kind),
                            !.it = NoIterator, !.cur = "none", !.disconnected = {}]
        IN  IF kind = "hype"
            THEN OnHypeException(Log(S1, {"hype_done"}))
            ELSE {[Log(S1, {"metrics_done"}) EXCEPT !.pc = OnLoopException,
                                                    !.wake = S.now + 1]}
        : S \in {St}}

\* One step of `for websocket in self.active_connections:` up to the await of
\* the send, or to the end of the broadcast.
IterNext(St, kind) ==
    UNION {
        LET Send(w) == [S EXCEPT !.pc = SendPc(kind), !.cur = w, !.it.todo = @ \ {w}]
        IN  IF SizeChanged(S, kind) THEN Raised(S, kind)
            ELSE IF Disturbed(S)
                 THEN {Send(w) : w \in Registry(S, kind)} \cup Returned(S, kind)
                 ELSE IF S.it.todo = {} THEN Returned(S, kind)
                      ELSE {Send(w) : w \in S.it.todo}
        : S \in {St}}

\* The start of a broadcast over a non-empty registry
BeginIter(St, kind) ==
    UNION {
        LET R == Registry(S, kind)
        IN  IterNext([S EXCEPT !.disconnected = {},
                               !.it = [used |-> Cardinality(R), todo |-> R],
                               !.bcast = [kind |-> kind, start |-> R, sent |-> {},
                                          failed |-> {}, joined |-> {}, left |-> {},
                                          outcome |-> "running", after |-> {}]],
                     kind)
        : S \in {St}}

\* `await ws_manager.broadcast_metrics(metrics)` (line 103)
MetricsBroadcast(St) ==
    UNION {
        LET S1 == Log(S, {"metrics_called"})
        IN  IF S1.active_connections = {}
            THEN NextChannel(Log(S1, {"metrics_done"}))
            ELSE BeginIter(S1, "metrics")
        : S \in {St}}

\* Mutant of OnHypeException: the handler goes on to the next channel.
C11_OnHypeExceptionSkip(S) == NextChannel(S)

\* `except Exception as e: logger.error(...)` of lines 99-100: the channel's
\* iteration goes on at line 103.
OnHypeException(S) == MetricsBroadcast(S)

\* `await hype_manager.broadcast_hype(hype_event)` (line 98)
HypeBroadcast(St) ==
    UNION {
        LET S1 == Log(S, {"hype_called"})
        IN  IF S1.hype_connections = {}
            THEN MetricsBroadcast(Log(S1, {"hype_done"}))
            ELSE BeginIter(S1, "hype")
        : S \in {St}}

\* Lines 79-93 for channels_list[S.chan]: calculate_metrics, record_velocity,
\* check_for_hype, without an await between them.  Each result is bound as it
\* is computed.
ProcessChannel(St) ==
    UNION { UNION { UNION { UNION {
        LET channel == channels_list[S.chan]
            velocity == m.messages_per_second * Tenths
            fired == r.event # NoEvent
            S1 == [S EXCEPT !.metrics = m,
                            !.velocity_windows = windows,
                            !.last_hype = r.last_hype,
                            !.hype_event = r.event,
                            !.checked = [op |-> "check_for_hype", channel |-> channel,
                                         velocity |-> velocity, now |-> S.now,
                                         event |-> r.event,
                                         samples |-> Retained(windows, channel)],
                            !.hype_log[channel] = IF fired THEN Append(@, S.now) ELSE @,
                            !.tick_log[S.chan] =
                                @ \cup {"recorded"} \cup (IF fired THEN {"hype"} ELSE {})]
        IN  IF fired
            THEN {[S1 EXCEPT !.pc = "commit"]}
            ELSE MetricsBroadcast(S1)
        : r \in {CheckForHype(windows, S.last_hype, channels_list[S.chan],
                               m.messages_per_second * Tenths, S.now)} }
        : windows \in {RecordVelocity(S.velocity_windows, channels_list[S.chan],
                                       m.messages_per_second * Tenths, S.now)} }
        : m \in {calculate_metrics(buffers, channels_list[S.chan], S.now)} }
        : S \in {St} }

\* `while True: try: channels_list = settings.channels_list; for ...`
StartTick(St) ==
    UNION {
        LET S1 == [S EXCEPT !.tick_log = [i \in 1..Len(channels_list) |-> {}]]
        IN  IF Len(channels_list) = 0
            THEN {[S1 EXCEPT !.pc = "sleep", !.wake = S.now + 1]}
            ELSE ProcessChannel([S1 EXCEPT !.chan = 1])
        : S \in {St}}

\* A tick that starts at time t
StartTickAt(S, t) == StartTick([S EXCEPT !.now = t])

Sending == pc \in {"h_send", "m_send"}

SendKind == IF pc = "h_send" THEN "hype" ELSE "metrics"

Awaiting == pc \in {"commit", "refresh", "h_send", "m_send", "sleep", "err_sleep"}

\* asyncio.create_task(broadcast_metrics_loop()): the first run of the task
LoopStart ==
    /\ pc = "start"
    /\ \E S \in StartTick(Here) : Apply(S)
    /\ UNCHANGED <<clientVars, bufferVars, clock, advances, recorded, ws_state, db, cancelled>>

\* asyncio.sleep(1) returns (either one) a second later and the next tick
\* runs.  Time passes while the loop sleeps.
SleepDone ==
    /\ pc \in {"sleep", "err_sleep"}
    /\ advances < MaxSleeps
    /\ advances' = advances + 1
    /\ clock' = wake
    /\ \E S \in StartTickAt(Here, wake) : Apply(S)
    /\ UNCHANGED <<clientVars, bufferVars, recorded, ws_state, db, cancelled>>

\* session.commit() succeeds: the row is stored
CommitOk ==
    /\ pc = "commit"
    /\ db' = Append(db, hype_event)
    /\ Apply([Log(Here, {"persisted"}) EXCEPT !.pc = "refresh"])
    /\ UNCHANGED <<clientVars, bufferVars, clock, advances, recorded, ws_state, cancelled>>

\* session.commit() raises: `except Exception` of line 99, then line 103
CommitFail ==
    /\ pc = "commit"
    /\ \E S \in OnHypeException(
                  Log(Here, {"persist_failed"} \cup
                            (IF hype_connections # {} THEN {"had_subscribers"} ELSE {}))) :
          Apply(S)
    /\ UNCHANGED <<clientVars, bufferVars, clock, advances, recorded, ws_state, db, cancelled>>

\* session.refresh() returns, repo.create returns, broadcast_hype is called
RefreshOk ==
    /\ pc = "refresh"
    /\ \E S \in HypeBroadcast(Here) : Apply(S)
    /\ UNCHANGED <<clientVars, bufferVars, clock, advances, recorded, ws_state, db, cancelled>>

\* The awaited send returns: the loop goes on to the next websocket
SendOk ==
    /\ Sending
    /\ \E S \in IterNext([Here EXCEPT !.bcast.sent = @ \cup {cur}], SendKind) :
          Apply(S)
    /\ UNCHANGED <<clientVars, bufferVars, clock, advances, recorded, ws_state, db, cancelled>>

\* The awaited send raises: `except Exception: disconnected.add(websocket)`
SendFail ==
    /\ Sending
    /\ \E S \in IterNext([Here EXCEPT !.disconnected = @ \cup {cur},
                                      !.bcast.failed = @ \cup {cur}], SendKind) :
          Apply(S)
    /\ UNCHANGED <<clientVars, bufferVars, clock, advances, recorded, ws_state, db, cancelled>>

\* Mutant of OnCancelledError: CancelledError is handled like an Exception.
C25_OnCancelledAsException == "err_sleep"

\* `except asyncio.CancelledError: break` (line 108), or CancelledError
\* leaving the coroutine from the sleep of line 113
OnCancelledError == "done"

\* lifespan shutdown: task.cancel(); CancelledError is raised at the await the
\* coroutine is suspended at.  It is no Exception, so only
\* `except asyncio.CancelledError: break` catches it (or nothing, in the
\* handler's sleep): the coroutine ends.
Cancel ==
    /\ Awaiting
    /\ ~cancelled
    /\ cancelled' = TRUE
    /\ pc' = OnCancelledError
    /\ bcast' = IF Sending THEN [bcast EXCEPT !.outcome = "cancelled",
                                              !.after = Registry(Here, SendKind)]
                ELSE bcast
    /\ UNCHANGED <<clientVars, bufferVars, clock, advances, detectorVars, registryVars,
                   chan, metrics, hype_event, it, cur, disconnected, wake, db,
                   tick_log>>

Iterated(kind) == Sending /\ SendKind = kind

KindOf(w) == IF w \in HypeSockets THEN "hype" ELSE "metrics"

\* websocket_metrics / hype_websocket: `await manager.connect(websocket)`
connect(w) ==
    /\ ws_state[w] = "new"
    /\ ws_state' = [ws_state EXCEPT ![w] = "open"]
    /\ IF w \in HypeSockets
       THEN /\ hype_connections' = hype_connections \cup {w}
            /\ UNCHANGED active_connections
       ELSE /\ active_connections' = active_connections \cup {w}
            /\ UNCHANGED hype_connections
    /\ bcast' = IF Iterated(KindOf(w)) THEN [bcast EXCEPT !.joined = @ \cup {w}]
                ELSE bcast
    /\ UNCHANGED <<clientVars, bufferVars, clock, advances, detectorVars,
                   pc, chan, metrics, hype_event, it, cur, disconnected, wake, db,
                   cancelled, tick_log>>

\* Mutant of EndpointDisconnect: the websocket stays registered.
C35_DisconnectKeeps(registry, w) == registry

\* `manager.disconnect(websocket)` / `hype_manager.disconnect(websocket)` in
\* the except clauses of the endpoint: the manager's set without the websocket
EndpointDisconnect(registry, w) == registry \ {w}

\* The endpoint's receive loop ends with WebSocketDisconnect or another
\* Exception: the endpoint's own manager forgets the websocket
disconnect(w) ==
    /\ ws_state[w] = "open"
    /\ ws_state' = [ws_state EXCEPT ![w] = "closed"]
    /\ hype_connections' = IF w \in HypeSockets
                           THEN EndpointDisconnect(hype_connections, w)
                           ELSE hype_connections
    /\ active_connections' = IF w \in HypeSockets
                             THEN active_connections
                             ELSE EndpointDisconnect(active_connections, w)
    /\ bcast' = IF Iterated(KindOf(w)) /\ w \in Registry(Here, KindOf(w))
                THEN [bcast EXCEPT !.left = @ \cup {w}]
                ELSE bcast
    /\ UNCHANGED <<clientVars, bufferVars, clock, advances, detectorVars,
                   pc, chan, metrics, hype_event, it, cur, disconnected, wake, db,
                   cancelled, tick_log>>

\* A burst of MinVelocity messages stamped `at`
Burst(at) == [i \in 1..MinVelocity |-> ChatMessage(i, at)]

\* A baseline of MinSamples - 1 quiet ticks, one second apart, ending before `at`
QuietTicks(at) == [i \in 1..(MinSamples - 1) |-> <<at - MinSamples + i, 0>>]

\* The application after lifespan startup and MinSamples - 1 ticks without
\* messages or subscribers: channel "a" has either no window yet or a burst of
\* messages just received.
Init ==
    /\ maxlen = MinVelocity
    /\ \E burst \in BOOLEAN :
          /\ buffers = IF burst THEN [k \in {"a"} |-> Burst(0)] ELSE EmptyMap
          /\ history = [k \in Keys |-> IF burst /\ k = "a" THEN Burst(0) ELSE <<>>]
    /\ ret = [op |-> "init"]
    /\ clock = 0
    /\ advances = 0
    /\ velocity_windows = [c \in DetectorNames |-> QuietTicks(0)]
    /\ last_hype = EmptyMap
    /\ hype_log = [c \in DetectorNames |-> <<>>]
    /\ checked = [op |-> "init"]
    /\ recorded = 0
    /\ ws_state = [w \in Sockets |-> "new"]
    /\ active_connections = {}
    /\ hype_connections = {}
    /\ pc = "start"
    /\ connected_channels = {channels_list[i] : i \in 1..Len(channels_list)}
    /\ requests = [r \in Requests |-> NoRequest]
    /\ upstream = <<>>
    /\ chan = 0
    /\ metrics = NoBroadcast
    /\ hype_event = NoEvent
    /\ it = NoIterator
    /\ cur = "none"
    /\ disconnected = {}
    /\ wake = 0
    /\ db = <<>>
    /\ cancelled = FALSE
    /\ bcast = NoBroadcast
    /\ tick_log = [i \in 1..Len(channels_list) |-> {}]

Next ==
    \/ LoopStart
    \/ SleepDone
    \/ CommitOk
    \/ CommitFail
    \/ RefreshOk
    \/ SendOk
    \/ SendFail
    \/ Cancel
    \/ \E w \in Sockets : connect(w)
    \/ \E w \in Sockets : disconnect(w)

Spec == Init /\ [][Next]_vars

\* The loop's scheduling: a task that can run is run, a sleep ends, the
\* database answers.  Nothing makes a websocket send complete.
FairSpec ==
    /\ Spec
    /\ WF_vars(LoopStart)
    /\ WF_vars(SleepDone)
    /\ WF_vars(CommitOk \/ CommitFail)
    /\ WF_vars(RefreshOk)

Undisturbed == bcast.joined = {} /\ bcast.left = {}

\* C4: in a broadcast during which nobody registers or unregisters, a failing
\* send does not stop the sends to the other sinks: every sink of the registry
\* is sent to once, the broadcast does not raise, and afterwards the registry
\* is the previous registry minus exactly the sinks whose send failed.
C4_BroadcastIsolation ==
    (bcast.kind # "none" /\ Undisturbed) =>
        /\ bcast.outcome # "raised"
        /\ bcast.sent \cap bcast.failed = {}
        /\ bcast.outcome = "running" =>
              bcast.start = bcast.sent \cup bcast.failed \cup it.todo \cup {cur}
        /\ bcast.outcome = "returned" =>
              /\ bcast.sent = bcast.start \ bcast.failed
              /\ bcast.failed \subseteq bcast.start
              /\ bcast.after = bcast.start \ bcast.failed

\* C4 witness: three registered sinks, one send failed, the other two were
\* delivered and are the registry after the call.
C4_Witness ==
    /\ bcast.kind = "metrics" /\ bcast.outcome = "returned" /\ Undisturbed
    /\ Cardinality(bcast.start) = 3
    /\ Cardinality(bcast.failed) = 1
    /\ Cardinality(bcast.sent) = 2
    /\ bcast.after = bcast.sent

TickEnded == pc \in {"sleep", "err_sleep"}

\* C5: when a tick has ended, every configured channel was processed in it:
\* its metrics were computed and handed to broadcast_metrics, whatever failed
\* for another channel.
C5_ChannelIsolation ==
    TickEnded => \A i \in 1..Len(channels_list) :
                    {"recorded", "metrics_called"} \subseteq tick_log[i]

\* C6: a hype event whose persistence failed is still handed to
\* broadcast_hype, before the channel's metrics are broadcast.
C6_BroadcastDespitePersistFailure ==
    \A i \in 1..Len(channels_list) :
        {"persist_failed", "had_subscribers", "metrics_called"} \subseteq tick_log[i]
            => "hype_called" \in tick_log[i]

\* C7: the loop ends only when its task was cancelled; after any failure of
\* persistence, of a send or of a broadcast it is still running.
C7_OnlyCancellationEnds == pc = "done" => cancelled

\* C7 witness: after a failed commit, a broadcast that raised (channel "b" was
\* skipped in that tick) and a failed send (an open websocket was removed from
\* the registry), the loop has run a further tick to its end and was not
\* cancelled.
C7_Witness ==
    /\ advances >= 1 /\ pc = "sleep" /\ ~cancelled
    /\ hype_log["a"] # <<>> /\ db = <<>>
    /\ Len(velocity_windows["b"]) < Len(velocity_windows["a"])
    /\ \E w \in MetricsSockets : ws_state[w] = "open" /\ w \notin active_connections

\* C8: when the loop has ended, no channel is left in flight: a channel whose
\* velocity was recorded in the last tick had its broadcast_metrics call
\* finished, and a persisted hype event had its broadcast_hype call finished.
C8_CancelBetweenChannels ==
    pc = "done" => \A i \in 1..Len(channels_list) :
        /\ "recorded" \in tick_log[i] => "metrics_done" \in tick_log[i]
        /\ "persisted" \in tick_log[i] => "hype_done" \in tick_log[i]

\* C9: the send to a connected subscriber does not stay awaited for ever (a
\* timeout ends it), so the loop gets past every subscriber.
C9_SendBounded ==
    \A w \in Sockets : []<>~(Sending /\ cur = w /\ ws_state[w] = "open")

\* C10: a broadcast during which sinks register or unregister ends without an
\* error, has sent to every sink registered for its whole duration, and leaves
\* the registry as the connects, disconnects and failed sends make it.
C10_ConcurrentRegistration ==
    (bcast.kind # "none" /\ bcast.outcome \in {"returned", "raised"}) =>
        /\ bcast.outcome = "returned"
        /\ (bcast.start \ bcast.left) \subseteq (bcast.sent \cup bcast.failed)
        /\ bcast.after = ((bcast.start \cup bcast.joined) \ bcast.left) \ bcast.failed

\* What the tick has done for channel i, in order of occurrence: a tag is
\* logged only after the tags of the steps before it.
C11_Order ==
    /\ \A i \in 1..Len(channels_list) :
          LET L == tick_log[i]
              InBurstHandling == chan = i /\ pc \in {"commit", "refresh", "h_send"}
          IN  /\ L # {} => "recorded" \in L
              /\ L \cap {"persisted", "persist_failed"} # {} => "hype" \in L
              /\ "hype_called" \in L => "persisted" \in L
              /\ ("metrics_called" \in L /\ "hype" \in L) =>
                     ("persist_failed" \in L \/ "hype_done" \in L)
              /\ ("recorded" \in L /\ ~cancelled /\ ~InBurstHandling) =>
                     "metrics_called" \in L
    /\ checked.op = "check_for_hype" =>
          LET w == velocity_windows[checked.channel]
          IN  /\ w[Len(w)] = <<checked.now, checked.velocity>>
              /\ metrics.channel = checked.channel
              /\ metrics.messages_per_second * Tenths = checked.velocity

\* Within a tick, nothing is done for a channel after its metrics were handed
\* to the metrics registry, except the end of that broadcast.
C11_MetricsLast ==
    \A i \in 1..Len(channels_list) :
        ("metrics_called" \in tick_log[i] /\ advances' = advances) =>
            tick_log'[i] \ {"metrics_done"} = tick_log[i] \ {"metrics_done"}

\* C11: for each channel of a tick the steps happen in the order compute
\* metrics, record velocity, check for a burst, then (only for a burst) store
\* and burst broadcast, and last the metrics broadcast; the metrics broadcast
\* is called whether or not a burst fired and whether or not storing or
\* broadcasting the burst failed.
C11_StepOrder == [](C11_Order) /\ [][C11_MetricsLast]_vars

\* C11 witness: a burst fired for the first channel, storing it failed, and the
\* channel's metrics were handed to the metrics registry all the same.
C11_Witness ==
    {"recorded", "hype", "persist_failed", "metrics_called"} \subseteq tick_log[1]

----------------------------------------------------------------------------
(* Channel management: api/routes/channels.py with                         *)
(* TwitchChatClient.join_channel / leave_channel, next to the loop and the *)
(* ingestion of the messages of the joined channels.  No websocket client  *)
(* is connected and no baseline exists yet, so every tick runs from its    *)
(* start to `await asyncio.sleep(1)` in one step.  Messages are ingested   *)
(* for the channels of Keys.                                               *)

\* Names a request can carry
ChannelRequests == Names \cup {"c"}

\* POST /api/channels: `joins` is whether join_channels returns or raises
add_channel(name, joins) ==
    LET channel == Lower(name)
        known == channel \in connected_channels
    IN  /\ connected_channels' = IF ~known /\ joins
                                 THEN connected_channels \cup {channel}
                                 ELSE connected_channels
        /\ ret' = [op |-> "add_channel", channel |-> channel,
                   status |-> IF known THEN "already_joined"
                              ELSE IF joins THEN "joined" ELSE "error"]
        /\ UNCHANGED <<maxlen, buffers, history, clock, advances, detectorVars,
                       registryVars, loopVars, requests, upstream>>

\* DELETE /api/channels/{name}: `parts` is whether part_channels returns or raises
remove_channel(name, parts) ==
    LET channel == Lower(name)
        known == channel \in connected_channels
    IN  /\ connected_channels' = IF known /\ parts
                                 THEN connected_channels \ {channel}
                                 ELSE connected_channels
        /\ ret' = [op |-> "remove_channel", channel |-> channel,
                   status |-> IF ~known THEN "not_found"
                              ELSE IF parts THEN "left" ELSE "error"]
        /\ UNCHANGED <<maxlen, buffers, history, clock, advances, detectorVars,
                       registryVars, loopVars, requests, upstream>>

\* TwitchChatClient.event_message -> handle_twitch_message, for a message of a
\* joined channel received now
handle_twitch_message(channel) ==
    /\ channel \in connected_channels
    /\ add_message(channel, clock)

InitChannels ==
    /\ maxlen = BufMaxlen
    /\ buffers = EmptyMap
    /\ history = [k \in Keys |-> <<>>]
    /\ ret = [op |-> "init"]
    /\ clock = 0
    /\ advances = 0
    /\ velocity_windows = EmptyMap
    /\ last_hype = EmptyMap
    /\ hype_log = [c \in DetectorNames |-> <<>>]
    /\ checked = [op |-> "init"]
    /\ recorded = 0
    /\ ws_state = [w \in Sockets |-> "new"]
    /\ active_connections = {}
    /\ hype_connections = {}
    /\ pc = "start"
    /\ connected_channels = {channels_list[i] : i \in 1..Len(channels_list)}
    /\ requests = [r \in Requests |-> NoRequest]
    /\ upstream = <<>>
    /\ chan = 0
    /\ metrics = NoBroadcast
    /\ hype_event = NoEvent
    /\ it = NoIterator
    /\ cur = "none"
    /\ disconnected = {}
    /\ wake = 0
    /\ db = <<>>
    /\ cancelled = FALSE
    /\ bcast = NoBroadcast
    /\ tick_log = [i \in 1..Len(channels_list) |-> {}]

NextChannels ==
    \/ LoopStart
    \/ SleepDone
    \/ \E name \in ChannelRequests, joins \in BOOLEAN : add_channel(name, joins)
    \/ \E name \in ChannelRequests, parts \in BOOLEAN : remove_channel(name, parts)
    \/ \E channel \in Keys : handle_twitch_message(channel)

SpecChannels == InitChannels /\ [][NextChannels]_vars

\* The channels the tick has computed, fed to the detector and broadcast
Processed ==
    {channels_list[i] : i \in {j \in 1..Len(channels_list) :
                                  {"recorded", "metrics_called"} \subseteq tick_log[j]}}

\* C12: a tick processes exactly the channels monitored at that time: a step
\* that runs a tick to its sleep has processed every channel of
\* connected_channels, joined at start or at runtime, and no channel that was
\* left.
C12_MonitoredProcessed ==
    [][(pc' = "sleep" /\ (pc = "start" \/ advances' # advances))
          => Processed' = connected_channels]_vars

\* C20: after remove_channel has answered "left", the channel's window holds
\* no events: get_message_count is 0 and get_messages_since returns nothing.
C20_ClearedOnRemove ==
    (ret.op = "remove_channel" /\ ret.status = "left") =>
        /\ get_message_count(buffers, ret.channel) = 0
        /\ get_messages_since(buffers, ret.channel, 0, NoLimit) = <<>>

----------------------------------------------------------------------------
(* HypeDetector.check_for_hype over baselines of 9 and of 12 equal samples, *)
(* with velocities below the minimum, at the threshold and above it.       *)
(* Channel "a" has the baseline, channel "b" is unknown to the detector.   *)
(* Time advances by whole cooldowns.                                       *)

InitThreshold ==
    /\ maxlen = BufMaxlen
    /\ buffers = EmptyMap
    /\ history = [k \in Keys |-> <<>>]
    /\ ret = [op |-> "init"]
    /\ clock = 0
    /\ advances = 0
    /\ \E b \in Baselines : velocity_windows = [c \in {"a"} |-> b]
    /\ last_hype = EmptyMap
    /\ hype_log = [c \in DetectorNames |-> <<>>]
    /\ checked = [op |-> "init"]
    /\ recorded = 0
    /\ IdleLoop

NextThreshold ==
    \/ \E c \in DetectorNames, v \in Velocities : record_velocity(c, v)
    \/ \E c \in DetectorNames, v \in CheckVelocities : check_for_hype(c, v)
    \/ advance_clock(CooldownSeconds)

SpecThreshold == InitThreshold /\ [][NextThreshold]_vars

\* A step of check_for_hype in SpecThreshold: the call `checked'` was made in
\* the state before the step, whose windows it left as they were.
CheckStep ==
    /\ checked'.op = "check_for_hype"
    /\ recorded' = recorded
    /\ advances' = advances

\* The cooldown of channel c has passed, or no event was emitted for it
CooldownOver(c) == c \notin DOMAIN last_hype \/ clock - last_hype[c] >= CooldownSeconds

\* At least MinSamples samples are retained for channel c
EnoughSamples(c) == c \in DOMAIN velocity_windows /\ Len(velocity_windows[c]) >= MinSamples

\* velocity v (in tenths) is strictly greater than mean + ThresholdStd * std of
\* the samples of window w, std being the sample standard deviation, or the
\* epsilon when that is zero.  With n samples of sum s and sum of squares q:
\* v - mean = (n*v - s)/n and std^2 = (n*q - s^2)/(n*(n-1)).
ExceedsThreshold(w, v) ==
    LET n == Len(w)
        sum[i \in 0..n] == IF i = 0 THEN 0 ELSE sum[i - 1] + w[i][2]
        sq[i \in 0..n] == IF i = 0 THEN 0 ELSE sq[i - 1] + w[i][2] * w[i][2]
        dev == n * v - sum[n]
        spread == n * sq[n] - sum[n] * sum[n]
    IN  IF spread = 0
        THEN dev > ThresholdStd * StdEpsilon * n
        ELSE dev > 0 /\ dev * dev * (n - 1) > ThresholdStd * ThresholdStd * n * spread

\* C13: a check_for_hype call with a velocity below the minimum returns no
\* event and leaves the cooldown state alone, in every detector state.
C13_NoiseFloor ==
    [][(CheckStep /\ checked'.velocity < MinVelocity * Tenths)
          => (checked'.event = NoEvent /\ last_hype' = last_hype)]_vars

\* C13 witness: a velocity below the minimum was checked against ten samples
\* of zero, whose threshold it exceeds, outside any cooldown: no event.
C13_Witness ==
    /\ checked.op = "check_for_hype" /\ checked.event = NoEvent
    /\ checked.velocity < MinVelocity * Tenths
    /\ CooldownOver(checked.channel)
    /\ EnoughSamples(checked.channel)
    /\ checked.samples = Len(velocity_windows[checked.channel])
    /\ \A i \in 1..Len(velocity_windows[checked.channel]) :
          velocity_windows[checked.channel][i][2] = 0
    /\ ExceedsThreshold(velocity_windows[checked.channel], checked.velocity)

\* C14: a check_for_hype call for a channel with fewer than MinSamples retained
\* samples, or unknown to the detector, returns no event whatever the velocity.
C14_MinSamples ==
    [][(CheckStep /\ ~EnoughSamples(checked'.channel))
          => (checked'.event = NoEvent /\ last_hype' = last_hype)]_vars

\* C14 witness: with MinSamples - 1 samples, outside any cooldown, a velocity
\* above the minimum and above the threshold of those samples gave no event.
C14_Witness ==
    /\ checked.op = "check_for_hype" /\ checked.event = NoEvent
    /\ checked.velocity >= MinVelocity * Tenths
    /\ CooldownOver(checked.channel)
    /\ checked.channel \in DOMAIN velocity_windows
    /\ Len(velocity_windows[checked.channel]) = MinSamples - 1
    /\ checked.samples = MinSamples - 1
    /\ ExceedsThreshold(velocity_windows[checked.channel], checked.velocity)

\* C15: when the cooldown, minimum-velocity and sample-count gates pass,
\* check_for_hype returns an event exactly when the velocity is strictly
\* greater than mean + ThresholdStd * std (the epsilon for a zero std); the
\* event carries the call's channel, time and velocity and starts the cooldown.
C15_ThresholdRule ==
    [][(/\ CheckStep
        /\ CooldownOver(checked'.channel)
        /\ checked'.velocity >= MinVelocity * Tenths
        /\ EnoughSamples(checked'.channel))
          => LET c == checked'.channel
                 e == checked'.event
             IN  /\ (e # NoEvent) <=>
                        ExceedsThreshold(velocity_windows[c], checked'.velocity)
                 /\ e # NoEvent =>
                        /\ e.channel = c /\ e.timestamp = clock
                        /\ e.velocity = checked'.velocity
                        /\ last_hype'[c] = clock
                 /\ e = NoEvent => last_hype' = last_hype]_vars

\* C15 witness: with all gates open, a velocity equal to the threshold (mean
\* 10.0, epsilon 0.1, twice) gave no event.
C15_Witness ==
    /\ checked.op = "check_for_hype" /\ checked.event = NoEvent
    /\ checked.velocity >= MinVelocity * Tenths
    /\ CooldownOver(checked.channel)
    /\ EnoughSamples(checked.channel)
    /\ LET w == velocity_windows[checked.channel]
       IN  /\ checked.samples = Len(w)
           /\ \A i \in 1..Len(w) : w[i][2] = w[1][2]
           /\ checked.velocity = w[1][2] + ThresholdStd * StdEpsilon

\* C16: with at least MinSamples identical samples m, and the other gates
\* open, check_for_hype returns an event exactly for a velocity above
\* m + ThresholdStd * 0.1, and the event's multiplier is velocity / m rounded
\* to hundredths (the velocity itself when m is 0).
C16_ZeroStd ==
    [][(/\ CheckStep
        /\ CooldownOver(checked'.channel)
        /\ checked'.velocity >= MinVelocity * Tenths
        /\ EnoughSamples(checked'.channel)
        /\ \A i \in 1..Len(velocity_windows[checked'.channel]) :
              velocity_windows[checked'.channel][i][2] =
                  velocity_windows[checked'.channel][1][2])
          => LET m == velocity_windows[checked'.channel][1][2]
                 v == checked'.velocity
                 e == checked'.event
                 off == IF m > 0 THEN 100 * v - e.multiplier * m
                        ELSE 100 * v - e.multiplier * Tenths
                 unit == IF m > 0 THEN m ELSE Tenths
             IN  /\ (e # NoEvent) <=> (v > m + ThresholdStd * StdEpsilon)
                 /\ e # NoEvent => (2 * off <= unit /\ -2 * off <= unit)]_vars

\* C16 witness: twelve samples of 10.0, then a check of 10.3: an event with
\* multiplier 1.03.
C16_Witness ==
    /\ checked.op = "check_for_hype" /\ checked.event # NoEvent
    /\ checked.velocity = 103
    /\ checked.event.multiplier = 103
    /\ LET w == velocity_windows[checked.channel]
       IN  Len(w) = 12 /\ checked.samples = 12 /\ \A i \in 1..Len(w) : w[i][2] = 100


----------------------------------------------------------------------------
(* The buffer with all of its operations, and the calculator reading it *)

Nows == {0, MaxTs + 1, MaxTs + 60, MaxTs + 300}

RecentCounts == {0, 1, BufMaxlen, BufMaxlen + 1}

\* A call of MessageBuffer.get_recent_messages(channel, count)
query_recent(name, count) ==
    /\ ret' = [op |-> "get_recent_messages", channel |-> name, count |-> count,
               result |-> get_recent_messages(buffers, name, count)]
    /\ UNCHANGED <<clientVars, maxlen, buffers, history, clock, advances, detectorVars, registryVars, loopVars>>

\* A call of MessageBuffer.get_message_count(channel)
query_count(name) ==
    /\ ret' = [op |-> "get_message_count", channel |-> name,
               result |-> get_message_count(buffers, name)]
    /\ UNCHANGED <<clientVars, maxlen, buffers, history, clock, advances, detectorVars, registryVars, loopVars>>

\* MessageBuffer.clear_channel(channel)
clear_channel(name) ==
    /\ buffers' = ClearChannel(buffers, name)
    /\ ret' = [op |-> "clear_channel", channel |-> name]
    /\ UNCHANGED <<clientVars, maxlen, history, clock, advances, detectorVars, registryVars, loopVars>>

\* Mutant of BuffersAfterRead: the window is looked up with setdefault, which
\* creates an empty one for an unknown channel.
C29_BuffersAfterReadCreates(bufs, name) ==
    IF Lower(name) \in DOMAIN bufs THEN bufs ELSE Put(bufs, Lower(name), <<>>)

\* _buffers after get_messages_since(channel, ...): `if channel not in
\* self._buffers: return []`, and the deque is only iterated over
BuffersAfterRead(bufs, name) == bufs

\* A call of MetricsCalculator.calculate_metrics(channel) when the clock
\* reads `now`
query_metrics(name, now) ==
    /\ ret' = [op |-> "calculate_metrics", channel |-> name, now |-> now,
               result |-> calculate_metrics(buffers, name, now)]
    /\ buffers' = BuffersAfterRead(buffers, name)
    /\ UNCHANGED <<clientVars, maxlen, history, clock, advances, detectorVars, registryVars, loopVars>>

NextWindow ==
    \/ \E name \in Names, ts \in Timestamps : add_message(name, ts)
    \/ \E name \in Names, since \in SinceValues, limit \in Limits :
          query_since(name, since, limit)
    \/ \E name \in Names, count \in RecentCounts : query_recent(name, count)
    \/ \E name \in Names : query_count(name)
    \/ \E name \in Names : clear_channel(name)
    \/ \E name \in Names, now \in Nows : query_metrics(name, now)

SpecWindow == InitBuffer /\ [][NextWindow]_vars

\* C17: in every snapshot the one-second count is at most the one-minute
\* count, which is at most the number of events the buffer holds within the
\* 300-second horizon of the same instant.
C17_HorizonMonotonic ==
    ret.op = "calculate_metrics" =>
        LET key == Lower(ret.channel)
            held == IF key \in DOMAIN buffers THEN buffers[key] ELSE <<>>
            in5m == {i \in 1..Len(held) : held[i].timestamp >= ret.now - 300}
        IN  /\ ret.result.messages_per_second <= ret.result.messages_last_minute
            /\ ret.result.messages_last_minute <= Cardinality(in5m)

\* C17 witness: a snapshot whose three horizons hold different numbers of
\* events, the window holding its events out of time order.
C17_Witness ==
    /\ ret.op = "calculate_metrics"
    /\ ret.result.messages_per_second < ret.result.messages_last_minute
    /\ LET held == buffers[Lower(ret.channel)]
       IN  /\ ret.result.messages_last_minute < Len(held)
           /\ held[1].timestamp > held[Len(held)].timestamp


\* The spellings of one channel name: they differ by letter case only
Spellings(name) ==
    IF name \in {"a", "A"} THEN {"a", "A"} ELSE {name}

\* C19: channel keys are case-insensitive.  One channel has at most one
\* window, which exists exactly when something was inserted under one of its
\* spellings; get_messages_since, get_recent_messages and get_message_count
\* answer alike for every spelling; an insertion under one spelling is the
\* newest message under every other, and after clear_channel under one
\* spelling no spelling holds a message.
C19_CaseInsensitiveKeys ==
    /\ \A k1, k2 \in DOMAIN buffers :
          Spellings(k1) = Spellings(k2) => k1 = k2
    /\ \A n \in Names :
          (Spellings(n) \cap DOMAIN buffers # {})
             <=> (\E k \in Spellings(n) \cap DOMAIN history : history[k] # <<>>)
    /\ \A n1 \in Names : \A n2 \in Spellings(n1) :
          /\ get_message_count(buffers, n1) = get_message_count(buffers, n2)
          /\ \A since \in SinceValues, limit \in Limits :
                get_messages_since(buffers, n1, since, limit)
                   = get_messages_since(buffers, n2, since, limit)
          /\ \A count \in RecentCounts :
                get_recent_messages(buffers, n1, count)
                   = get_recent_messages(buffers, n2, count)
    /\ ret.op = "add_message" =>
          \A n \in Spellings(ret.channel) :
             /\ get_message_count(buffers, n) > 0
             /\ \E k \in Spellings(n) \cap DOMAIN history :
                   get_recent_messages(buffers, n, 1)
                      = <<history[k][Len(history[k])]>>
    /\ ret.op = "clear_channel" =>
          \A n \in Spellings(ret.channel) :
             /\ get_message_count(buffers, n) = 0
             /\ get_recent_messages(buffers, n, BufMaxlen) = <<>>
             /\ get_messages_since(buffers, n, 0, NoLimit) = <<>>

\* C19 witness: more messages than the window holds were inserted for a
\* channel, the window was cleared in between, and the last insertion, under
\* the upper-case spelling, is the one message the lower-case spelling counts.
C19_Witness ==
    /\ ret.op = "add_message"
    /\ ret.channel = "A"
    /\ Len(history["a"]) > BufMaxlen
    /\ get_message_count(buffers, "a") = 1


\* A snapshot of a silent channel
ZeroSnapshot(m) ==
    /\ m.messages_per_second = 0
    /\ m.messages_last_minute = 0
    /\ m.unique_chatters_5min = 0
    /\ m.top_emotes = <<>>
    /\ m.avg_message_length = 0

\* The newest velocity sample of channel c is a 0 taken at time t
ZeroSampleAt(c, t) ==
    /\ c \in DOMAIN velocity_windows
    /\ velocity_windows[c] # <<>>
    /\ velocity_windows[c][Len(velocity_windows[c])] = <<t, 0>>

\* What a tick does for a channel without buffered events once it gets to it
C18_WhenProcessed ==
    \A i \in 1..Len(channels_list) :
        ("recorded" \in tick_log[i]
            /\ get_message_count(buffers, channels_list[i]) = 0)
        => /\ chan >= i
           /\ ZeroSampleAt(channels_list[i], metrics.timestamp)
           /\ chan = i => ZeroSnapshot(metrics)

\* C18: when a tick has ended, every configured channel without buffered
\* events was given a snapshot in it: its metrics, all zero, were handed to
\* broadcast_metrics and a velocity sample of 0 was recorded for it.
C18_SilentChannelSnapshot ==
    TickEnded => \A i \in 1..Len(channels_list) :
                    get_message_count(buffers, channels_list[i]) = 0
                    => /\ {"recorded", "metrics_called"} \subseteq tick_log[i]
                       /\ ZeroSampleAt(channels_list[i], metrics.timestamp)
                       /\ chan = i => ZeroSnapshot(metrics)

\* A snapshot computed for a channel whose window is missing or empty
C18_ZeroValued ==
    (ret.op = "calculate_metrics" /\ get_message_count(buffers, ret.channel) = 0)
        => ZeroSnapshot(ret.result)

----------------------------------------------------------------------------
(* ConnectionManager called directly: connect and disconnect with any       *)
(* websocket, registered or not, and client_count                           *)

\* Mutant of Discard: set.remove, which raises KeyError for a missing element.
C21_Remove(registry, w) ==
    [registry |-> registry \ {w}, raised |-> w \notin registry]

\* `self.active_connections.discard(websocket)`
Discard(registry, w) == [registry |-> registry \ {w}, raised |-> FALSE]

\* client_count: len(self.active_connections)
client_count(registry) == Cardinality(registry)

\* ConnectionManager.connect / HypeConnectionManager.connect:
\* `await websocket.accept()` returns or raises (the handshake fails, or the
\* websocket was accepted before); only after it returned is the websocket
\* added to the manager's set.
manager_connect(w) ==
    LET before == Registry(Here, KindOf(w))
    IN  \E accepted \in BOOLEAN :
          LET after == IF accepted THEN before \cup {w} ELSE before
          IN  /\ IF w \in HypeSockets
                 THEN hype_connections' = after /\ UNCHANGED active_connections
                 ELSE active_connections' = after /\ UNCHANGED hype_connections
              /\ ret' = [op |-> "connect", websocket |-> w, raised |-> ~accepted,
                         before |-> before,
                         count_before |-> client_count(before),
                         count |-> client_count(after)]
              /\ UNCHANGED <<clientVars, maxlen, buffers, history, clock, advances,
                             detectorVars, ws_state, loopVars>>

\* ConnectionManager.disconnect / HypeConnectionManager.disconnect
manager_disconnect(w) ==
    LET before == Registry(Here, KindOf(w))
        r == Discard(before, w)
    IN  /\ IF w \in HypeSockets
           THEN hype_connections' = r.registry /\ UNCHANGED active_connections
           ELSE active_connections' = r.registry /\ UNCHANGED hype_connections
        /\ ret' = [op |-> "disconnect", websocket |-> w, raised |-> r.raised,
                   before |-> before,
                   count_before |-> client_count(before),
                   count |-> client_count(r.registry)]
        /\ UNCHANGED <<clientVars, maxlen, buffers, history, clock, advances,
                       detectorVars, ws_state, loopVars>>

NextRegistry ==
    \/ \E w \in Sockets : manager_connect(w)
    \/ \E w \in Sockets : manager_disconnect(w)

SpecRegistry == InitBuffer /\ [][NextRegistry]_vars

\* The registry the last call worked on
Called == Registry(Here, KindOf(ret.websocket))

\* C21: connect with a registered websocket and disconnect with an
\* unregistered one leave the registry and the count as they were, the
\* disconnect without an error; the count is the number of registered
\* websockets after every call.
C21_IdempotentRegistry ==
    ret.op \in {"connect", "disconnect"} =>
        /\ (ret.op = "connect" /\ ret.websocket \in ret.before) =>
              /\ Called = ret.before
              /\ ret.count = ret.count_before
        /\ (ret.op = "disconnect" /\ ret.websocket \notin ret.before) =>
              /\ Called = ret.before
              /\ ret.count = ret.count_before
              /\ ~ret.raised
        /\ ret.count = Cardinality({w \in Sockets : w \in Called})
        /\ Called \subseteq Sockets

\* C21 witness: a websocket that is not registered was disconnected while two
\* others are registered
C21_Witness ==
    /\ ret.op = "disconnect"
    /\ ret.websocket \notin ret.before
    /\ ret.count = 2

\* C21 witness, connect: a registered websocket was connected again and the
\* accept returned
C21_WitnessConnect ==
    /\ ret.op = "connect"
    /\ ret.websocket \in ret.before
    /\ ~ret.raised

----------------------------------------------------------------------------
(* Delivery *)

AllChannels == "*"

channel_name(w) == IF w = "m3" THEN "b" ELSE AllChannels

\* C23: a client of /ws/channel/{channel_name} is sent no metrics message of
\* another channel.
C23_OnlyOwnChannel ==
    (pc = "m_send" /\ channel_name(cur) # AllChannels) =>
        metrics.channel = channel_name(cur)

----------------------------------------------------------------------------
(* The loop with time passing while it awaits the database or a send *)

MaxWork == 2            \* seconds a tick's awaits may take in SpecTiming

\* The time the running (or last) tick began: the first channel's newest sample
TickStart ==
    LET window == velocity_windows[channels_list[1]]
    IN  window[Len(window)][1]

\* A second passes while the loop is suspended in repo.create or in a send
elapse ==
    /\ pc \in {"commit", "refresh", "h_send", "m_send"}
    /\ clock - TickStart < MaxWork
    /\ clock' = clock + 1
    /\ UNCHANGED <<clientVars, bufferVars, advances, detectorVars, registryVars, loopVars>>

NextTiming ==
    \/ LoopStart
    \/ SleepDone
    \/ CommitOk
    \/ CommitFail
    \/ RefreshOk
    \/ SendOk
    \/ SendFail
    \/ elapse
    \/ \E w \in {"m1", "h1"} : connect(w)

SpecTiming == Init /\ [][NextTiming]_vars

\* C24: the loop is in one tick at a time, and the tick after one whose work
\* took more than a second starts at the time that work was completed.
C24_NoExtraWait ==
    [][(TickEnded /\ advances' # advances /\ clock - TickStart > 1)
          => clock' = clock]_vars

----------------------------------------------------------------------------
(* Cancellation *)

\* C25: a cancelled loop has terminated, and from then on no tick starts and
\* nothing is recorded in the detector, persisted or broadcast: the detector,
\* the database, the tick's log, the broadcast in progress and the loop's
\* position stay as the cancellation found them.
C25_CancelStops ==
    /\ [](cancelled => pc = "done")
    /\ [][cancelled =>
             /\ UNCHANGED <<detectorVars, db, tick_log, bcast, metrics, hype_event>>
             /\ UNCHANGED <<pc, chan, cur, it, clock, advances>>]_vars

\* C25 witness: the loop was cancelled during a send of a broadcast, and a
\* client has connected or disconnected since
C25_Witness ==
    /\ cancelled
    /\ pc = "done"
    /\ bcast.kind # "none"
    /\ bcast.outcome = "cancelled"
    /\ Registry(Here, bcast.kind) # bcast.after

----------------------------------------------------------------------------
(* The rolling window over a long run: record_velocity once per tick, the   *)
(* ticks one second apart except for a bounded number of longer gaps        *)

MaxGaps == 1            \* ticks of SpecRolling that follow a longer gap

RollingHorizon == WindowSeconds + MinSamples    \* the clock stops here

\* The gaps other than one second: two seconds, and the window's length and
\* a second more
Gaps == {2, WindowSeconds, WindowSeconds + 1}

\* One tick of the loop for channel "a", d seconds after the previous one:
\* hype_detector.record_velocity("a", velocity)
tick_record(d, velocity) ==
    /\ clock + d <= RollingHorizon
    /\ clock' = clock + d
    /\ velocity_windows' = RecordVelocity(velocity_windows, "a", velocity, clock + d)
    /\ checked' = [op |-> "record_velocity", channel |-> "a",
                   velocity |-> velocity, now |-> clock + d]
    /\ UNCHANGED <<clientVars, bufferVars, last_hype, hype_log, recorded,
                   registryVars, loopVars>>

regular_tick ==
    /\ tick_record(1, 0)
    /\ UNCHANGED advances

late_tick(d) ==
    /\ advances < MaxGaps
    /\ advances' = advances + 1
    /\ tick_record(d, MinVelocity * Tenths)

NextRolling ==
    \/ regular_tick
    \/ \E d \in Gaps : late_tick(d)

SpecRolling == InitBuffer /\ [][NextRolling]_vars

\* The samples of channel c, none when it has no window
SamplesOf(windows, c) == IF Has(windows, c) THEN windows[c] ELSE <<>>

IsSuffix(s, t) ==
    Len(s) <= Len(t) /\ s = SubSeq(t, Len(t) - Len(s) + 1, Len(t))

\* C26: after record_velocity(channel, value) at time now the newest sample
\* is (now, value), no retained sample is older than now - window_seconds,
\* the retained samples are the newest ones of the previous samples followed
\* by the new one, in that order, and there are at most window_seconds + 1.
C26_RollingWindow ==
    /\ [](checked.op = "record_velocity" =>
            LET window == SamplesOf(velocity_windows, checked.channel)
            IN  /\ window # <<>>
                /\ window[Len(window)] = <<checked.now, checked.velocity>>
                /\ \A i \in 1..Len(window) :
                      window[i][1] >= checked.now - WindowSeconds
                /\ Len(window) <= WindowSeconds + 1)
    /\ [][checked' # checked =>
             IsSuffix(SamplesOf(velocity_windows', checked'.channel),
                      Append(SamplesOf(velocity_windows, checked'.channel),
                             <<checked'.now, checked'.velocity>>))]_vars

\* C26 witness: the window is full (window_seconds + 1 samples, the oldest
\* exactly window_seconds old) and holds a sample recorded after a longer gap
C26_Witness ==
    /\ checked.op = "record_velocity"
    /\ LET window == SamplesOf(velocity_windows, checked.channel)
       IN  /\ Len(window) = WindowSeconds + 1
           /\ window[1][1] = checked.now - WindowSeconds
           /\ advances > 0

----------------------------------------------------------------------------
(* HypeDetector.get_baseline and HypeDetector.reset_channel *)

\* round(sqrt(num / den), 0) for num >= 0, den > 0: the k with
\* (k - 1/2)^2 <= num / den < (k + 1/2)^2
RoundSqrt(num, den) ==
    CHOOSE k \in 0..(num + 1) :
        /\ (k = 0 \/ (2 * k - 1) * (2 * k - 1) * den <= 4 * num)
        /\ 4 * num < (2 * k + 1) * (2 * k + 1) * den

\* Mutant of GetBaseline: the window is looked up with setdefault, which
\* creates an empty one for an unknown channel.
C28_GetBaselineCreates(windows, channel) ==
    [windows |-> IF Has(windows, channel) THEN windows ELSE Put(windows, channel, <<>>),
     result |-> <<0, 0>>]

\* The body of get_baseline: the (unchanged) _velocity_windows and the pair
\* (round(mean, 2), round(std, 2)), in hundredths of a message per second
GetBaseline(windows, channel) ==
    LET window == IF Has(windows, channel) THEN windows[channel] ELSE <<>>
        n == Len(window)
    IN  [windows |-> windows,
         result |-> IF n < 2 THEN <<0, 0>>
                    ELSE <<RoundDiv(Tenths * SumV(window), n),
                           RoundSqrt(Tenths * Tenths * ScaledVar(window), n * (n - 1))>>]

\* Mutant of ResetChannel: the cooldown state is kept.
C27_ResetKeepsCooldown(windows, lasts, channel) ==
    [windows |-> IF Has(windows, channel) THEN Remove(windows, channel) ELSE windows,
     last_hype |-> lasts]

\* The body of reset_channel: the new _velocity_windows and _last_hype
ResetChannel(windows, lasts, channel) ==
    [windows |-> IF Has(windows, channel) THEN Remove(windows, channel) ELSE windows,
     last_hype |-> IF Has(lasts, channel) THEN Remove(lasts, channel) ELSE lasts]

\* A call of HypeDetector.get_baseline(channel)
get_baseline(channel) ==
    LET r == GetBaseline(velocity_windows, channel)
    IN  /\ velocity_windows' = r.windows
        /\ ret' = [op |-> "get_baseline", channel |-> channel, now |-> clock,
                   result |-> r.result]
        /\ UNCHANGED <<clientVars, maxlen, buffers, history, clock, advances,
                       last_hype, hype_log, checked, recorded, registryVars, loopVars>>

\* A call of HypeDetector.reset_channel(channel)
reset_channel(channel) ==
    LET r == ResetChannel(velocity_windows, last_hype, channel)
    IN  /\ velocity_windows' = r.windows
        /\ last_hype' = r.last_hype
        /\ ret' = [op |-> "reset_channel", channel |-> channel, now |-> clock]
        /\ UNCHANGED <<clientVars, maxlen, buffers, history, clock, advances,
                       hype_log, checked, recorded, registryVars, loopVars>>

ResetHorizon == MinSamples + 1      \* the clock of SpecReset stops here

\* A tick of the loop for channel "a" without messages, a second after the
\* previous one
quiet_tick ==
    /\ clock < ResetHorizon
    /\ regular_tick

\* The detector after ticks that left MinSamples + 2 samples in both windows:
\* channel "a" was silent, channel "b" had one message in every second.
InitReset ==
    /\ maxlen = BufMaxlen
    /\ buffers = EmptyMap
    /\ history = [k \in Keys |-> <<>>]
    /\ ret = [op |-> "init"]
    /\ clock = 0
    /\ advances = 0
    /\ velocity_windows = [c \in DetectorNames |->
                              IF c = "a" THEN LongBaseline(0)
                              ELSE LongBaseline(Tenths)]
    /\ last_hype = EmptyMap
    /\ hype_log = [c \in DetectorNames |-> <<>>]
    /\ checked = [op |-> "init"]
    /\ recorded = 0
    /\ IdleLoop

NextReset ==
    \/ quiet_tick
    \/ \E c \in DetectorNames, v \in Velocities : check_for_hype(c, v)
    \/ \E c \in DetectorNames : reset_channel(c)

SpecReset == InitReset /\ [][NextReset]_vars

NextBaseline ==
    \/ quiet_tick
    \/ check_for_hype("b", 6 * Tenths)
    \/ \E c \in DetectorNames : reset_channel(c)
    \/ \E c \in DetectorNames \cup {"c"} : get_baseline(c)

SpecBaseline == InitReset /\ [][NextBaseline]_vars

\* The detector state of the channels other than c is the same before and
\* after the step
OthersUnchanged(c) ==
    /\ DOMAIN velocity_windows' \ {c} = DOMAIN velocity_windows \ {c}
    /\ \A o \in DOMAIN velocity_windows \ {c} :
          velocity_windows'[o] = velocity_windows[o]
    /\ DOMAIN last_hype' \ {c} = DOMAIN last_hype \ {c}
    /\ \A o \in DOMAIN last_hype \ {c} : last_hype'[o] = last_hype[o]

\* A step that calls reset_channel
ResetStep == ret'.op = "reset_channel" /\ ret' # ret

\* A check_for_hype call for the channel of the last reset_channel call
CheckAfterReset ==
    /\ ret.op = "reset_channel"
    /\ checked' # checked
    /\ checked'.op = "check_for_hype"
    /\ checked'.channel = ret.channel

\* C27: reset_channel(C) removes the window and the cooldown of C and leaves
\* the other channels' windows and cooldowns alone; get_baseline(C) is then
\* (0, 0); a check for C made before ten samples were recorded after the
\* reset returns no event; and the first check after them with a velocity
\* above the threshold returns an event, however recently C had one before
\* the reset.
C27_ResetChannel ==
    /\ [][ResetStep =>
             /\ ~Has(velocity_windows', ret'.channel)
             /\ ~Has(last_hype', ret'.channel)
             /\ OthersUnchanged(ret'.channel)
             /\ GetBaseline(velocity_windows', ret'.channel).result = <<0, 0>>]_vars
    /\ [][CheckAfterReset =>
             LET c == ret.channel
                 window == SamplesOf(velocity_windows, c)
                 since == IF c = "a" THEN clock - ret.now ELSE 0
             IN  /\ Len(window) = since
                 /\ since < MinSamples => checked'.event = NoEvent
                 /\ (/\ since >= MinSamples
                     /\ ~Has(last_hype, c)
                     /\ checked'.velocity >= MinVelocity * Tenths
                     /\ ExceedsThreshold(window, checked'.velocity))
                       => checked'.event # NoEvent]_vars

\* C27 witness: channel "a" had an event, was reset, and ten ticks later, less
\* than the cooldown after the first event, has a second one
C27_Witness ==
    /\ ret.op = "reset_channel"
    /\ ret.channel = "a"
    /\ checked.op = "check_for_hype"
    /\ checked.channel = "a"
    /\ checked.event # NoEvent
    /\ Len(hype_log["a"]) = 2
    /\ hype_log["a"][1] <= ret.now
    /\ hype_log["a"][2] = checked.now
    /\ hype_log["a"][2] - hype_log["a"][1] < CooldownSeconds

\* A step that calls get_baseline
BaselineStep == ret'.op = "get_baseline" /\ ret' # ret

\* C28: get_baseline(channel) changes no window and no cooldown and creates
\* no window, and its result is (0, 0) when the channel has fewer than two
\* retained samples or is unknown.
C28_BaselineReadOnly ==
    [][BaselineStep =>
          /\ velocity_windows' = velocity_windows
          /\ last_hype' = last_hype
          /\ Len(SamplesOf(velocity_windows, ret'.channel)) < 2
                => ret'.result = <<0, 0>>]_vars

\* C28 witness: get_baseline returned (0, 0) for a channel with one retained
\* sample, while the other channel has a cooldown running and a baseline that
\* is not (0, 0)
C28_Witness ==
    /\ ret.op = "get_baseline"
    /\ ret.result = <<0, 0>>
    /\ Has(velocity_windows, ret.channel)
    /\ Len(velocity_windows[ret.channel]) = 1
    /\ velocity_windows[ret.channel][1][1] = ret.now
    /\ Has(last_hype, "b")
    /\ GetBaseline(velocity_windows, "b").result # <<0, 0>>

\* A step that calls calculate_metrics
MetricsStep == ret'.op = "calculate_metrics" /\ ret' # ret

\* C29: calculate_metrics changes no window and creates none, for a known and
\* for an unknown channel, and its snapshot is the one a second call at the
\* same time on the same windows returns.
C29_NoSideEffects ==
    [][MetricsStep =>
          /\ buffers' = buffers
          /\ DOMAIN buffers' = DOMAIN buffers
          /\ ret'.result = calculate_metrics(buffers', ret'.channel, ret'.now)]_vars

\* C29 witness: a snapshot was taken of a channel without a window while
\* another channel has one, and no window was created
C29_Witness ==
    /\ ret.op = "calculate_metrics"
    /\ Lower(ret.channel) \notin DOMAIN buffers
    /\ DOMAIN buffers # {}

\* C30: get_recent_messages(channel, count) returns the last min(count, size)
\* messages of the channel's window, oldest first, in the order they arrived;
\* nothing for a channel without a window and for count 0.
C30_RecentMessages ==
    ret.op = "get_recent_messages" =>
        LET key == IF ret.channel = "A" THEN "a" ELSE ret.channel
            held == IF key \in DOMAIN buffers THEN buffers[key] ELSE <<>>
            k == IF ret.count <= Len(held) THEN ret.count ELSE Len(held)
        IN  /\ Len(ret.result) = k
            /\ \A i \in 1..k : ret.result[i] = held[Len(held) - k + i]
            /\ \A i \in 1..(k - 1) : ret.result[i].id < ret.result[i + 1].id
            /\ (key \notin DOMAIN buffers \/ ret.count = 0) => ret.result = <<>>

\* C30 witness: the window is full and has evicted a message, and the one
\* most recent message was asked for and returned
C30_Witness ==
    /\ ret.op = "get_recent_messages"
    /\ ret.count = 1
    /\ "a" \in DOMAIN buffers
    /\ Len(buffers["a"]) = BufMaxlen
    /\ Len(history["a"]) > BufMaxlen
    /\ ret.channel = "A"
    /\ ret.result = <<history["a"][Len(history["a"])]>>

\* C30 witness, count 0: nothing is returned from a window that holds messages
C30_WitnessZero ==
    /\ ret.op = "get_recent_messages"
    /\ ret.count = 0
    /\ ret.result = <<>>
    /\ get_message_count(buffers, ret.channel) > 0

----------------------------------------------------------------------------
(* The contents of a snapshot *)

\* The messages of the snapshot's channel that lie in its 300-second horizon,
\* read from the stored window
InHorizon ==
    LET key == IF ret.channel = "A" THEN "a" ELSE ret.channel
        held == IF key \in DOMAIN buffers THEN buffers[key] ELSE <<>>
    IN  SelectSeq(held, LAMBDA m : m.timestamp >= ret.now - 300)

\* C31: the unique-chatter count of a snapshot is the number of authors of the
\* messages in the 300-second horizon, authors whose names differ by letter
\* case only being one.
C31_UniqueChatters ==
    ret.op = "calculate_metrics" =>
        ret.result.unique_chatters_5min
            = Cardinality({Spellings(InHorizon[i].username) : i \in 1..Len(InHorizon)})

\* C31 witness: two messages in the horizon, written by "a" and by "A", are
\* counted as one chatter
C31_Witness ==
    /\ ret.op = "calculate_metrics"
    /\ Len(InHorizon) = 2
    /\ {InHorizon[i].username : i \in 1..2} = {"a", "A"}
    /\ ret.result.unique_chatters_5min = 1

\* The number of times token t occurs in the emotes of the horizon's messages
CountInHorizon(t) ==
    LET n[i \in 0..Len(InHorizon)] ==
            IF i = 0 THEN 0
            ELSE n[i - 1] + Cardinality({j \in 1..Len(InHorizon[i].emotes) :
                                            InHorizon[i].emotes[j] = t})
    IN  n[Len(InHorizon)]

TokensInHorizon ==
    UNION {{InHorizon[i].emotes[j] : j \in 1..Len(InHorizon[i].emotes)} :
             i \in 1..Len(InHorizon)}

\* Token t is seen before token u: its first occurrence is in an earlier
\* message, or earlier in the same message
SeenBefore(t, u) ==
    \E i \in 1..Len(InHorizon) : \E j \in 1..Len(InHorizon[i].emotes) :
        /\ InHorizon[i].emotes[j] = t
        /\ \A k \in 1..i : \A l \in 1..Len(InHorizon[k].emotes) :
              InHorizon[k].emotes[l] = u => (k = i /\ l > j)

\* C32: the top-emotes list of a snapshot has at most 10 pairs of distinct
\* tokens, each with the number of its occurrences in the 300-second horizon,
\* in descending order of count and, for equal counts, in first-seen order;
\* a token of the horizon is left out only when the list is full, and then it
\* has no higher count than any listed token.
C32_TopEmotes ==
    ret.op = "calculate_metrics" =>
        LET top == ret.result.top_emotes
        IN  /\ Len(top) <= 10
            /\ \A i \in 1..Len(top) :
                  /\ top[i][1] \in TokensInHorizon
                  /\ top[i][2] = CountInHorizon(top[i][1])
            /\ \A i, j \in 1..Len(top) :
                  i < j => \/ top[i][2] > top[j][2]
                           \/ /\ top[i][2] = top[j][2]
                              /\ SeenBefore(top[i][1], top[j][1])
            /\ \A t \in TokensInHorizon \ {top[i][1] : i \in 1..Len(top)} :
                  /\ Len(top) = 10
                  /\ \A i \in 1..Len(top) : CountInHorizon(t) <= top[i][2]

\* C32 witness: eleven tokens occur in the horizon; the one that occurs twice
\* leads the list although it was not seen first in the window's second
\* message, nine of the others follow in first-seen order, one is left out
C32_Witness ==
    /\ ret.op = "calculate_metrics"
    /\ Cardinality(TokensInHorizon) = 11
    /\ Len(ret.result.top_emotes) = 10
    /\ ret.result.top_emotes[1] = <<"LUL", 2>>
    /\ ret.result.top_emotes[2] = <<"KEKW", 1>>

----------------------------------------------------------------------------
(* The emitted event *)

\* A check_for_hype step of SpecThreshold that returned an event
EmitStep == CheckStep /\ checked'.event # NoEvent

\* The sum of the samples of the checked channel, in tenths
CheckedSum ==
    LET w == velocity_windows[checked'.channel]
        sum[i \in 0..Len(w)] == IF i = 0 THEN 0 ELSE sum[i - 1] + w[i][2]
    IN  sum[Len(w)]

CheckedLen == Len(velocity_windows[checked'.channel])

\* C33 as stated: the event carries the checked velocity, and its multiplier
\* is exactly velocity / mean, or the velocity when the mean is 0.
C33_ExactMultiplier ==
    [][EmitStep =>
          /\ checked'.event.velocity = checked'.velocity
          /\ IF CheckedSum > 0
             THEN checked'.event.multiplier * CheckedSum
                     = 100 * checked'.velocity * CheckedLen
             ELSE checked'.event.multiplier * Tenths = 100 * checked'.velocity]_vars

\* C33, amended: the event carries the checked velocity, and its multiplier
\* is velocity / mean rounded to two decimals (at most half a hundredth off),
\* or the velocity when the mean is 0.
C33_RoundedMultiplier ==
    [][EmitStep =>
          /\ checked'.event.velocity = checked'.velocity
          /\ IF CheckedSum > 0
             THEN LET off == checked'.event.multiplier * CheckedSum
                                - 100 * checked'.velocity * CheckedLen
                  IN  2 * off <= CheckedSum /\ -2 * off <= CheckedSum
             ELSE checked'.event.multiplier * Tenths = 100 * checked'.velocity]_vars

\* C33 witness: an event for 10.2 against nine samples of 6.0 and one of 0
\* (mean 5.4): the multiplier is 1.89, not 10.2 / 5.4
C33_Witness ==
    /\ checked.op = "check_for_hype" /\ checked.event # NoEvent
    /\ checked.velocity = 102
    /\ checked.event.velocity = 102
    /\ checked.event.multiplier = 189
    /\ checked.samples = MinSamples
    /\ LET w == velocity_windows[checked.channel]
       IN  Len(w) = MinSamples /\ SumV(w) = 540

\* C33 witness, mean 0: an event for 6.0 against samples of 0 has multiplier 6
C33_WitnessZeroMean ==
    /\ checked.op = "check_for_hype" /\ checked.event # NoEvent
    /\ checked.velocity = 60
    /\ checked.event.multiplier = 600
    /\ LET w == velocity_windows[checked.channel]
       IN  Len(w) = checked.samples /\ SumV(w) = 0

----------------------------------------------------------------------------
(* The detector under channel names that differ in letter case.  The loop  *)
(* hands every configured name to the detector as it is spelled in the     *)
(* setting (config.channels_list only strips blanks).                      *)

\* The detector after nine silent ticks over a configured list of spellings
InitSpelling ==
    /\ maxlen = BufMaxlen
    /\ buffers = EmptyMap
    /\ history = [k \in Keys |-> <<>>]
    /\ ret = [op |-> "init"]
    /\ clock = 0
    /\ advances = 0
    /\ \E S \in SUBSET Keys :
          velocity_windows = [c \in UNION {Spellings(k) : k \in S} |-> Baseline(0)]
    /\ last_hype = EmptyMap
    /\ hype_log = [c \in Names |-> <<>>]
    /\ checked = [op |-> "init"]
    /\ recorded = 0
    /\ IdleLoop

NextSpelling ==
    \/ \E c \in Names, v \in Velocities : record_velocity(c, v)
    \/ \E c \in Names, v \in Velocities : check_for_hype(c, v)
    \/ \E d \in Jumps : advance_clock(d)

SpecSpelling == InitSpelling /\ [][NextSpelling]_vars

\* What the detector holds for a name: `windows.get(channel)`
Lookup(map, name) == IF Has(map, name) THEN <<map[name]>> ELSE <<>>

\* C34: two channel names that differ only in letter case have the same
\* samples and the same cooldown in the detector.
C34_OneStatePerChannel ==
    \A n1 \in Names : \A n2 \in Spellings(n1) :
       /\ Lookup(velocity_windows, n1) = Lookup(velocity_windows, n2)
       /\ Lookup(last_hype, n1) = Lookup(last_hype, n2)

----------------------------------------------------------------------------
(* The end of a subscriber's connection handler *)

\* A step in which the handler of websocket w ends
HandlerEnds(w) == ws_state[w] = "open" /\ ws_state'[w] = "closed"

\* A step of the loop after which a send is awaited: the send is a new one
SendStarts == ws_state' = ws_state /\ pc' \in {"h_send", "m_send"}

\* C35: a websocket whose handler has ended is in no registry, no send to it
\* is started afterwards, and the end of a handler changes only the registry
\* of its own endpoint, by that websocket alone.
C35_RemovedOnEnd ==
    /\ [](\A w \in Sockets :
             ws_state[w] = "closed" =>
                w \notin active_connections /\ w \notin hype_connections)
    /\ [][/\ SendStarts => ws_state[cur'] = "open"
          /\ \A w \in MetricsSockets :
                HandlerEnds(w) => /\ active_connections' = active_connections \ {w}
                                  /\ hype_connections' = hype_connections
          /\ \A w \in HypeSockets :
                HandlerEnds(w) => /\ hype_connections' = hype_connections \ {w}
                                  /\ active_connections' = active_connections]_vars

\* C35 witness: a broadcast of metrics that began after the handler of m1
\* had ended and while h1 was registered has sent to another subscriber;
\* (m1 was registered once, and neither at the start of this broadcast nor
\* during it).
C35_Witness ==
    /\ bcast.kind = "metrics"
    /\ ws_state["m1"] = "closed"
    /\ "m1" \notin bcast.start /\ "m1" \notin bcast.joined
    /\ bcast.sent # {}
    /\ "h1" \in hype_connections

----------------------------------------------------------------------------
(* The detector as the loop calls it: for one channel of one tick,         *)
(* record_velocity(channel, v) and then check_for_hype(channel, v) with    *)
(* the same v (main.py lines 82-90).                                       *)

MaxObserved == 2        \* calls of the pair in a run

\* Mutant of RecordThenCheck: the velocity is checked before it is recorded.
C36_CheckThenRecord(windows, lasts, channel, velocity, now) ==
    LET r == CheckForHype(windows, lasts, channel, velocity, now)
    IN  [velocity_windows |-> RecordVelocity(windows, channel, velocity, now),
         last_hype |-> r.last_hype, event |-> r.event,
         samples |-> Retained(windows, channel)]

\* `hype_detector.record_velocity(channel, metrics.messages_per_second)`, then
\* `hype_detector.check_for_hype(channel=channel, current_velocity=
\* metrics.messages_per_second, ...)`: the detector afterwards, the event, and
\* the number of samples the check found
RecordThenCheck(windows, lasts, channel, velocity, now) ==
    LET recorded_windows == RecordVelocity(windows, channel, velocity, now)
        r == CheckForHype(recorded_windows, lasts, channel, velocity, now)
    IN  [velocity_windows |-> recorded_windows,
         last_hype |-> r.last_hype, event |-> r.event,
         samples |-> Retained(recorded_windows, channel)]

\* One channel of one tick
observe(channel, velocity) ==
    LET r == RecordThenCheck(velocity_windows, last_hype, channel, velocity, clock)
    IN  /\ recorded < MaxObserved
        /\ recorded' = recorded + 1
        /\ velocity_windows' = r.velocity_windows
        /\ last_hype' = r.last_hype
        /\ checked' = [op |-> "check_for_hype", channel |-> channel,
                       velocity |-> velocity, now |-> clock, event |-> r.event,
                       samples |-> r.samples]
        /\ hype_log' = IF r.event = NoEvent THEN hype_log
                       ELSE [hype_log EXCEPT ![channel] = Append(@, clock)]
        /\ UNCHANGED <<clientVars, bufferVars, clock, advances,
                       registryVars, loopVars>>

NextObserve ==
    \/ \E c \in DetectorNames, v \in Velocities : observe(c, v)
    \/ \E d \in Jumps : advance_clock(d)

SpecObserve == InitDetector /\ [][NextObserve]_vars

\* A step of observe
ObserveStep == recorded' = recorded + 1

\* C36: when the loop has recorded a velocity and checked it, the check has
\* found the recorded sample, and if the standard deviation of the retained
\* samples is zero then the velocity equals their mean and no event is emitted.
C36_ZeroStdNeverEmits ==
    [][ObserveStep =>
          LET w == velocity_windows'[checked'.channel]
          IN  /\ checked'.samples = Len(w)
              /\ w[Len(w)][2] = checked'.velocity
              /\ StdIsZero(w) =>
                    /\ SumV(w) = Len(w) * checked'.velocity
                    /\ checked'.event = NoEvent]_vars

\* C36 witness: the tenth sample of 6.0 in a row, outside any cooldown: the
\* deviation is zero, the velocity is above the minimum, and nothing is emitted
C36_Witness ==
    /\ checked.op = "check_for_hype" /\ checked.event = NoEvent
    /\ checked.velocity = 6 * Tenths
    /\ checked.samples = MinSamples
    /\ ~Has(last_hype, checked.channel)
    /\ LET w == velocity_windows[checked.channel]
       IN  Len(w) = MinSamples /\ StdIsZero(w) /\ w[Len(w)] = <<checked.now, 6 * Tenths>>

\* C36 witness: nine samples of 0 and the tick's 6.0: the deviation is not
\* zero and the event is emitted
C36_WitnessEmits ==
    /\ checked.op = "check_for_hype" /\ checked.event # NoEvent
    /\ checked.samples = MinSamples
    /\ LET w == velocity_windows[checked.channel]
       IN  Len(w) = MinSamples /\ ~StdIsZero(w)

----------------------------------------------------------------------------
(* The 1-second velocity over successive ticks.  Messages carry the time   *)
(* of the upstream server (tmi-sent-ts), the horizon is taken from the     *)
(* local clock at the tick; a tick follows the one before after the sleep  *)
(* of one second plus the time its work has taken.                         *)

TickGaps == {1, 2}

\* The timestamps of the messages: also ahead of the local clock
SentTimestamps == 0..(MaxTs + 2)

\* One tick for channel "a": calculate_metrics, then record_velocity
count_tick(d) ==
    /\ advances < MaxAdvances
    /\ advances' = advances + 1
    /\ tick_record(d, calculate_metrics(buffers, "a", clock + d).messages_per_second
                          * Tenths)

NextCount ==
    \/ \E name \in Names, ts \in SentTimestamps : add_message(name, ts)
    \/ \E d \in TickGaps : count_tick(d)

SpecCount == InitBuffer /\ [][NextCount]_vars

\* C37: no ingested event is counted in the velocity of two ticks, so the
\* velocities the ticks have recorded for a channel add up to no more than
\* the number of events ingested for it.
C37_CountedAtMostOnce ==
    Has(velocity_windows, "a") =>
       SumV(velocity_windows["a"]) <= Tenths * Len(history["a"])

----------------------------------------------------------------------------
(* The loop with ingestion: handle_twitch_message runs in the same event   *)
(* loop as broadcast_metrics_loop, whenever the loop is suspended at an    *)
(* await.                                                                  *)

\* How far behind the local clock the timestamp of an arriving message is:
\* inside the 1-second horizon, inside the 60-second one, inside the last
Lags == {0, 2, 61}

\* handle_twitch_message(message) for a message sent `lag` seconds ago
ingest(name, lag) == add_message(name, clock - lag)

NextIngest ==
    \/ LoopStart
    \/ SleepDone
    \/ CommitOk
    \/ RefreshOk
    \/ SendOk
    \/ connect("m1")
    \/ \E lag \in Lags : ingest("a", lag)

SpecIngest == Init /\ [][NextIngest]_vars

\* A step in which the loop has processed a channel
ProcessStep == checked' # checked

\* The number of messages the window holds for a channel from `since` on
HeldSince(bufs, channel, since) ==
    LET key == Lower(channel)
        held == IF Has(bufs, key) THEN bufs[key] ELSE <<>>
    IN  Cardinality({i \in 1..Len(held) : held[i].timestamp >= since})

\* C38: the snapshot of a channel is taken from the window as it is when the
\* loop processes the channel (its three horizons are counted in that one
\* window state), and the velocity recorded, the velocity checked and the
\* velocity of the snapshot that is broadcast are the same value.
C38_OneWindowState ==
    /\ [][ProcessStep =>
            LET c == checked'.channel
                now == checked'.now
                w == velocity_windows'[c]
            IN  /\ metrics'.channel = c /\ metrics'.timestamp = now
                /\ metrics'.messages_per_second = HeldSince(buffers, c, now - 1)
                /\ metrics'.messages_last_minute = HeldSince(buffers, c, now - 60)
                /\ metrics'.unique_chatters_5min <= HeldSince(buffers, c, now - 300)
                /\ (metrics'.unique_chatters_5min = 0)
                      <=> (HeldSince(buffers, c, now - 300) = 0)
                /\ checked'.velocity = metrics'.messages_per_second * Tenths
                /\ w[Len(w)] = <<now, checked'.velocity>>]_vars
    /\ [](pc = "m_send" =>
            /\ metrics.channel = checked.channel
            /\ metrics.messages_per_second * Tenths = checked.velocity
            /\ velocity_windows[checked.channel][Len(velocity_windows[checked.channel])]
                  = <<checked.now, checked.velocity>>)

\* C38 witness: the snapshot of channel "a" is being sent after a message
\* was ingested for "a" during the tick; its horizons hold 1, 2 and 3
\* messages of the window of that time, its velocity is the checked one
C38_Witness ==
    /\ pc = "m_send" /\ checked.op = "check_for_hype" /\ checked.channel = "a"
    /\ metrics.channel = "a"
    /\ metrics.messages_per_second = 1
    /\ metrics.messages_last_minute = 2
    /\ checked.velocity = Tenths
    /\ Has(buffers, "a") /\ Len(buffers["a"]) > 3

----------------------------------------------------------------------------
(* What check_for_hype writes *)

\* A step that is a call of check_for_hype
CheckCall == checked' # checked /\ checked'.op = "check_for_hype"

\* C39: a call of check_for_hype leaves every sample sequence as it is; a
\* call that returns nothing leaves every last-burst time as it is, and a
\* call that emits sets the last-burst time of its channel to now and leaves
\* the last-burst times of the other channels as they are.
C39_WritesOnlyOnEmit ==
    [][CheckCall =>
          /\ velocity_windows' = velocity_windows
          /\ checked'.event = NoEvent => last_hype' = last_hype
          /\ checked'.event # NoEvent =>
                /\ DOMAIN last_hype' = DOMAIN last_hype \cup {checked'.channel}
                /\ last_hype'[checked'.channel] = checked'.now
                /\ \A c \in DOMAIN last_hype \ {checked'.channel} :
                      last_hype'[c] = last_hype[c]]_vars

\* C39 witness: an event for channel "b" was emitted while channel "a" had
\* an earlier last-burst time, which it still has
C39_Witness ==
    /\ checked.op = "check_for_hype" /\ checked.channel = "b"
    /\ checked.event # NoEvent
    /\ Has(last_hype, "b") /\ last_hype["b"] = checked.now
    /\ Has(last_hype, "a") /\ last_hype["a"] < checked.now

\* C39 witness: a check of channel "a" outside its cooldown has returned
\* nothing, and the last-burst time of "a" is the one of its earlier event
C39_WitnessNone ==
    /\ checked.op = "check_for_hype" /\ checked.channel = "a"
    /\ checked.event = NoEvent
    /\ Has(last_hype, "a") /\ checked.now - last_hype["a"] >= CooldownSeconds

----------------------------------------------------------------------------
(* Requests to /api/channels in progress at the same time: the handler of  *)
(* a request runs up to `await self.join_channels([channel])` or `await    *)
(* self.part_channels([channel])`, where other handlers can run, and goes  *)
(* on when the upstream call has returned or raised.                       *)

\* POST /api/channels up to the await in join_channel: the route's check of
\* connected_channels, the same check in join_channel, and the JOIN
begin_add(r, name) ==
    LET channel == Lower(name)
    IN  /\ requests[r].pc = "idle"
        /\ IF channel \in connected_channels
           THEN /\ requests' = [requests EXCEPT ![r] =
                       [pc |-> "done", op |-> "add_channel", channel |-> channel,
                        status |-> "already_joined"]]
                /\ UNCHANGED upstream
           ELSE /\ requests' = [requests EXCEPT ![r] =
                       [pc |-> "joining", op |-> "add_channel", channel |-> channel]]
                /\ upstream' = Append(upstream, <<"JOIN", channel>>)
        /\ UNCHANGED <<connected_channels, bufferVars, clock, advances, detectorVars,
                       registryVars, loopVars>>

\* join_channels returns: `self._connected_channels.add(channel)`, status
\* "joined"; or it raises: status 500
end_add(r, joins) ==
    /\ requests[r].pc = "joining"
    /\ connected_channels' = IF joins
                             THEN connected_channels \cup {requests[r].channel}
                             ELSE connected_channels
    /\ requests' = [requests EXCEPT ![r] =
           [pc |-> "done", op |-> "add_channel", channel |-> @.channel,
            status |-> IF joins THEN "joined" ELSE "error"]]
    /\ UNCHANGED <<upstream, bufferVars, clock, advances, detectorVars,
                   registryVars, loopVars>>

\* DELETE /api/channels/{name} up to the await in leave_channel
begin_remove(r, name) ==
    LET channel == Lower(name)
    IN  /\ requests[r].pc = "idle"
        /\ IF channel \notin connected_channels
           THEN /\ requests' = [requests EXCEPT ![r] =
                       [pc |-> "done", op |-> "remove_channel", channel |-> channel,
                        status |-> "not_found"]]
                /\ UNCHANGED upstream
           ELSE /\ requests' = [requests EXCEPT ![r] =
                       [pc |-> "parting", op |-> "remove_channel", channel |-> channel]]
                /\ upstream' = Append(upstream, <<"PART", channel>>)
        /\ UNCHANGED <<connected_channels, bufferVars, clock, advances, detectorVars,
                       registryVars, loopVars>>

\* part_channels returns: `self._connected_channels.discard(channel)`, status
\* "left"; or it raises: status 500
end_remove(r, parts) ==
    /\ requests[r].pc = "parting"
    /\ connected_channels' = IF parts
                             THEN connected_channels \ {requests[r].channel}
                             ELSE connected_channels
    /\ requests' = [requests EXCEPT ![r] =
           [pc |-> "done", op |-> "remove_channel", channel |-> @.channel,
            status |-> IF parts THEN "left" ELSE "error"]]
    /\ UNCHANGED <<upstream, bufferVars, clock, advances, detectorVars,
                   registryVars, loopVars>>

NextRequests ==
    \/ \E r \in Requests, name \in ChannelRequests : begin_add(r, name)
    \/ \E r \in Requests, joins \in BOOLEAN : end_add(r, joins)
    \/ \E r \in Requests, name \in ChannelRequests : begin_remove(r, name)
    \/ \E r \in Requests, parts \in BOOLEAN : end_remove(r, parts)

SpecRequests == InitChannels /\ [][NextRequests]_vars

\* The requests suspended at an upstream call `pc` for channel c
Suspended(at, c) ==
    {r \in Requests : requests[r].pc = at /\ requests[r].channel = c}

\* C40: of the join requests in progress for one channel at most one has
\* sent a JOIN upstream and waits for it, and of the leave requests in
\* progress for one channel at most one has sent a PART.
C40_OneUpstreamCall ==
    \A c \in Keys \cup {"c"} :
       /\ Cardinality(Suspended("joining", c)) <= 1
       /\ Cardinality(Suspended("parting", c)) <= 1

====
